---------------------------- MODULE Spec2Model ----------------------------
(***************************************************************************)
(* Weather proxy: cache-backed lookup (app/services/weather.py), Redis     *)
(* cache service (app/services/cache.py), the pybreaker circuit breaker    *)
(* that decorates WeatherService._fetch_weather_data, and the /weather     *)
(* HTTP handler (app/main.py).                                             *)
(*                                                                         *)
(* Concurrency is asyncio's: a task runs without interruption between two  *)
(* awaits that suspend it, so every action below is the code executed from *)
(* one suspension point (or the call) to the next one (or the return).     *)
(* Strings are sequences of one-character strings so that lower() and      *)
(* strip() can be computed.  Optional values (None or a value) are         *)
(* sequences of length 0 or 1.  Temperatures and wind speeds are in tenths.*)
(***************************************************************************)
EXTENDS Integers, Sequences, FiniteSets, TLC

(* ------------------------------ bounds -------------------------------- *)
NumTasks == 3
NumRequests == 2
MaxTime == 300
TimeStep == 150

(* ------------------------ settings (config.py) ------------------------ *)
cache_ttl == 300
circuit_breaker_fail_max == 5
circuit_breaker_timeout == 60

(* asyncio tasks: those of HTTP requests, and those warm_cache gathers *)
Tasks == 1..NumTasks

Requests == 1..NumRequests

None == <<>>
Some(v) == <<v>>

(* ------------------------------ strings ------------------------------- *)
Whitespace == {" ", "\t"}

LowerChar(ch) ==
  CASE ch = "P" -> "p" [] ch = "A" -> "a" [] ch = "R" -> "r"
    [] ch = "I" -> "i" [] ch = "S" -> "s" [] ch = "O" -> "o"
    [] ch = "M" -> "m" [] ch = "E" -> "e" [] OTHER -> ch

str_lower(s) == [i \in 1..Len(s) |-> LowerChar(s[i])]

RECURSIVE str_lstrip(_)
str_lstrip(s) ==
  IF s # <<>> /\ Head(s) \in Whitespace THEN str_lstrip(Tail(s)) ELSE s

RECURSIVE str_rstrip(_)
str_rstrip(s) ==
  IF s # <<>> /\ s[Len(s)] \in Whitespace
  THEN str_rstrip(SubSeq(s, 1, Len(s) - 1)) ELSE s

str_strip(s) == str_rstrip(str_lstrip(s))

Ord(ch) ==
  CASE ch = " " -> 32 [] ch = "\t" -> 9
    [] ch = "A" -> 65 [] ch = "E" -> 69 [] ch = "I" -> 73 [] ch = "M" -> 77
    [] ch = "O" -> 79 [] ch = "P" -> 80 [] ch = "R" -> 82 [] ch = "S" -> 83
    [] ch = "a" -> 97 [] ch = "e" -> 101 [] ch = "i" -> 105 [] ch = "m" -> 109
    [] ch = "o" -> 111 [] ch = "p" -> 112 [] ch = "r" -> 114 [] ch = "s" -> 115
    [] OTHER -> 63

str_encode(s) == [i \in 1..Len(s) |-> Ord(s[i])]

(* hashlib.md5(...).hexdigest(): a deterministic fixed-width digest of the *)
(* bytes.  The digest computed here is a 16-bit polynomial one; it is free *)
(* of collisions on the inputs enumerated (as md5 is).                     *)
RECURSIVE Digest(_, _)
Digest(bytes, h) ==
  IF bytes = <<>> THEN h
  ELSE Digest(Tail(bytes), (h * 31 + Head(bytes)) % 65536)

md5_hexdigest(bytes) == Digest(bytes, 7)

_generate_cache_key_nolower(city) ==
  <<"weather:", md5_hexdigest(str_encode(str_strip(city)))>>

_generate_cache_key(city) ==
  <<"weather:", md5_hexdigest(str_encode(str_strip(str_lower(city))))>>

(* ------------------------------ inputs -------------------------------- *)
Paris == <<"P", "a", "r", "i", "s">>
ParisPadded == <<" ", "p", "a", "r", "i", "s", " ">>
ParisUpper == <<"P", "A", "R", "I", "S">>
EmptyCity == <<>>
BlankCity == <<" ", "\t">>

Cities == {Paris, ParisPadded, EmptyCity, BlankCity}


(* --------------------------- WeatherData ------------------------------ *)
StoredFields == <<"city", "temperature", "wind_speed", "weather_code">>

(* the fields of WeatherData in the order model_dump lists them *)
FieldOrder == StoredFields \o <<"cached">>

WeatherData(city, temperature, wind_speed, weather_code, cached) ==
  [city |-> city, temperature |-> temperature, wind_speed |-> wind_speed,
   weather_code |-> weather_code, cached |-> cached]

(* variant: result.model_dump() with nothing excluded *)
model_dump_whole(r) == r

(* result.model_dump(exclude={"cached"}) *)
model_dump_exclude_cached(r) ==
  [k \in {"city", "temperature", "wind_speed", "weather_code"} |-> r[k]]

(* WeatherData built from the cached dict, with cached=True *)
WeatherDataFromCacheUnflagged(d) ==
  WeatherData(d["city"], d["temperature"], d["wind_speed"], d["weather_code"], FALSE)

WeatherDataFromCache(d) ==
  WeatherData(d["city"], d["temperature"], d["wind_speed"], d["weather_code"], TRUE)

(* dict.get(key, default) *)
dict_get(d, k, default) == IF k \in DOMAIN d THEN d[k] ELSE default

(* variant: the last key of the dict is left out of the text *)
json_dumps_short(d) ==
  LET keys == SelectSeq(FieldOrder, LAMBDA k : k \in DOMAIN d)
  IN  [i \in 1..(Len(keys) - 1) |-> <<keys[i], d[keys[i]]>>]

(* json.dumps of a dict: the text, as the sequence of its key/value pairs  *)
(* in the dict's order; json.loads builds the dict back from the text.     *)
json_dumps(d) ==
  LET keys == SelectSeq(FieldOrder, LAMBDA k : k \in DOMAIN d)
  IN  [i \in 1..Len(keys) |-> <<keys[i], d[keys[i]]>>]

(* a stored text that is not JSON; json.loads raises JSONDecodeError on it *)
MalformedText == << <<"{", 0>> >>

JSONDecodeError(text) == \E i \in 1..Len(text) : text[i][1] = "{"

json_loads_truncating(text) ==
  [k \in {text[i][1] : i \in 1..Len(text)} |->
     LET v == text[CHOOSE i \in 1..Len(text) : text[i][1] = k][2]
     IN  IF k \in {"temperature", "wind_speed"} THEN (v \div 10) * 10 ELSE v]

json_loads(text) ==
  [k \in {text[i][1] : i \in 1..Len(text)} |->
     text[CHOOSE i \in 1..Len(text) : text[i][1] = k][2]]

(* pydantic validation of WeatherData built from keyword arguments d and   *)
(* cached=True: the four required fields are there and cached is not.      *)
WeatherDataValidates(d) ==
  /\ {"city", "temperature", "wind_speed", "weather_code"} \subseteq DOMAIN d
  /\ "cached" \notin DOMAIN d

(* Python truthiness of a str, a dict or None *)
Truthy(opt) == opt # None /\ DOMAIN opt[1] # {}

(* ------------------------- upstream responses ------------------------- *)
Place1 == [latitude |-> 4885, longitude |-> 235]
Place2 == [latitude |-> 4190, longitude |-> 1248]

EmptyDict == [k \in {} |-> 0]

(* what awaiting the geocoding request can produce *)
GeocodeOutcomes ==
  {[kind |-> "json", data |-> [results |-> <<>>], not_found_text |-> FALSE],
   [kind |-> "json", data |-> [results |-> <<Place2, Place1>>], not_found_text |-> FALSE]}
  \cup {[kind |-> "HTTPError", data |-> [results |-> <<>>], not_found_text |-> nf] :
          nf \in BOOLEAN}
  \cup {[kind |-> "Exception", data |-> [results |-> <<>>], not_found_text |-> FALSE]}

Current1 == [temperature |-> 155, windspeed |-> 123, weathercode |-> 1]

(* what awaiting the weather request can produce *)
WeatherOutcomes ==
  {[kind |-> "json", data |-> [current_weather |-> Current1], not_found_text |-> FALSE],
   [kind |-> "json", data |-> EmptyDict, not_found_text |-> FALSE]}
  \cup {[kind |-> k, data |-> EmptyDict, not_found_text |-> FALSE] :
          k \in {"HTTPError", "Exception"}}

(* ----------------------------- errors --------------------------------- *)
(* A WeatherServiceError with its message; not_found_text says whether     *)
(* str(e).lower() contains "not found".                                     *)
WeatherServiceError(msg, nf) ==
  [type |-> "WeatherServiceError", msg |-> msg, not_found_text |-> nf]

HTTPException(status, detail) ==
  [type |-> "HTTPException", msg |-> detail, not_found_text |-> FALSE,
   status_code |-> status]

(* ------------------------ pybreaker.CircuitBreaker -------------------- *)
(* weather_breaker = CircuitBreaker(fail_max, reset_timeout): the state    *)
(* storage (state, fail counter, opened_at) and CircuitBreaker.call, which *)
(* runs func under the rules of the current state.  func_raises says       *)
(* whether the call of func raised.                                        *)
NewBreaker == [state |-> "closed", counter |-> 0, opened_at |-> None]

cb_open(b, clock) == [b EXCEPT !.state = "open", !.opened_at = Some(clock)]

cb_half_open(b) == [b EXCEPT !.state = "half-open"]

cb_close(b) == [b EXCEPT !.state = "closed", !.counter = 0]

_handle_success_counting(b) ==
  IF b.state = "half-open" THEN cb_close([b EXCEPT !.counter = @ + 1])
  ELSE [b EXCEPT !.counter = @ + 1]

_handle_success(b) ==
  IF b.state = "half-open" THEN cb_close([b EXCEPT !.counter = 0])
  ELSE [b EXCEPT !.counter = 0]

_handle_error(b, clock) ==
  LET b1 == [b EXCEPT !.counter = @ + 1]
  IN  IF b.state = "half-open"
      THEN [breaker |-> cb_open(b1, clock), raised |-> "CircuitBreakerError"]
      ELSE IF b1.counter >= circuit_breaker_fail_max
           THEN [breaker |-> cb_open(b1, clock), raised |-> "CircuitBreakerError"]
           ELSE [breaker |-> b1, raised |-> "reraised"]

(* CircuitBreakerState.call for the closed and half-open states *)
state_call(b, clock, func_raises) ==
  IF func_raises
  THEN LET r == _handle_error(b, clock)
       IN  [breaker |-> r.breaker, raised |-> r.raised, invoked |-> TRUE]
  ELSE [breaker |-> _handle_success(b), raised |-> "no", invoked |-> TRUE]

(* variant: an open breaker lets the call through *)
breaker_call_never_rejects(b, clock, func_raises) ==
  state_call(b, clock, func_raises)

(* CircuitBreaker.call: CircuitOpenState.before_call rejects until         *)
(* reset_timeout has passed since opened_at, then half-opens and calls.    *)
breaker_call(b, clock, func_raises) ==
  IF b.state = "open"
  THEN IF b.opened_at # None /\ clock < b.opened_at[1] + circuit_breaker_timeout
       THEN [breaker |-> b, raised |-> "CircuitBreakerError", invoked |-> FALSE]
       ELSE state_call(cb_half_open(b), clock, func_raises)
  ELSE state_call(b, clock, func_raises)

(* @weather_breaker decorates an async def: the breaker calls              *)
(* _fetch_weather_data(lat, lon) synchronously, which only builds the      *)
(* coroutine object and runs none of its body, so the call itself never    *)
(* raises; the coroutine is awaited by get_weather after the breaker has   *)
(* returned it.                                                            *)
fetch_call_raises == FALSE

(* ------------------------------ state --------------------------------- *)
VARIABLES
  phase,         \* lifespan: "created", "serving" (startup done), "aborted"
  redis,         \* cache.redis is not None
  store,         \* the Redis keyspace: key -> None or Some([text, expires])
  now,           \* the clock, in seconds
  breaker,       \* weather_breaker's state storage
  pc,            \* per task: where the get_weather call is suspended
  call,          \* per task: the city asked for
  frame,         \* per task: the locals of WeatherService.get_weather
  out,           \* per task: what the call returned or raised
  prior,         \* history, per task: the calls that had returned when this
                 \* one began, the clock not having advanced since
  writer,        \* history, per key: the record returned by the call that
                 \* wrote the entry
  consecFails,   \* history: failed weather fetches since the last successful one
  lastFailAt,    \* history: time of the failure that last left
                 \* consecFails at fail_max
  trial,         \* history, per task: the weather fetch in flight began
                 \* after fail_max failures and reset_timeout more
  cacheop,       \* the last direct call of a CacheService method and its result
  lastSet,       \* history, per key: the value of the last set that returned
                 \* True, and the time of it
  warm           \* the warm_cache call: its arguments, progress and result

prog == <<phase, redis, store, now, breaker, pc, call, frame, out, prior, writer>>

hist == <<consecFails, lastFailAt, trial>>

aux == <<cacheop, lastSet, warm>>

vars == <<prog, hist, aux>>

Keys == {_generate_cache_key(c) : c \in Cities}

(* the key of each city a lookup is made for *)
CacheKeys == [c \in Cities |-> _generate_cache_key(c)]

NoCall == [city |-> <<>>]

NoFrame ==
  [cache_key |-> None, cached_data |-> None, geo |-> None, coords |-> None,
   weather_data |-> None, result |-> None, sent |-> {}, log |-> <<>>]

(* what one get_weather call can send: a read and a write to Redis, a      *)
(* geocoding request and a weather request                                 *)
RequestKinds == {"cache_get", "geocode", "weather", "cache_set"}

NoOut == [kind |-> "none", rec |-> None, err |-> None]

(* op: the method; ret: what get returned; ok: what set returned; raised:  *)
(* the exception that left the method; calls: the Redis commands it sent.  *)
NoCacheOp ==
  [op |-> "none", key |-> None, ret |-> None, ok |-> FALSE, raised |-> None, calls |-> 0]

(* st: "idle", "scheduled" (the startup task created, warm_cache not yet    *)
(* called), "running" (awaiting gather) or "done"; enabled:                *)
(* settings.cache_warming_enabled; arg: the cities argument; cities:       *)
(* cities_to_warm; results: what each warm_city returned, with the city it *)
(* looked up; started: how many times get_weather was called for each;     *)
(* ret: the dict returned; raised: the exception raised.                   *)
NoWarm ==
  [st |-> "idle", enabled |-> TRUE, arg |-> None, cities |-> <<>>,
   started |-> <<>>, results |-> <<>>, ret |-> None, raised |-> None]

Init ==
  /\ phase = "created"
  /\ redis = FALSE
  /\ store = [k \in Keys |-> None]
  /\ now = 0
  /\ breaker = NewBreaker
  /\ pc = [t \in Tasks |-> "idle"]
  /\ call = [t \in Tasks |-> NoCall]
  /\ frame = [t \in Tasks |-> NoFrame]
  /\ out = [t \in Tasks |-> NoOut]
  /\ prior = [t \in Tasks |-> {}]
  /\ writer = [k \in Keys |-> None]
  /\ consecFails = 0
  /\ lastFailAt = 0
  /\ trial = [t \in Tasks |-> FALSE]
  /\ cacheop = NoCacheOp
  /\ lastSet = [k \in Keys |-> None]
  /\ warm = NoWarm

(* ------------------------- how a call ends ---------------------------- *)
(* out[t] is what weather_service.get_weather returned or raised (or the   *)
(* HTTPException of the handler's own check).  The /weather handler        *)
(* answers 200 with a record, 400 for its own HTTPException and for a      *)
(* WeatherServiceError whose text contains "not found", 503 for any other  *)
(* WeatherServiceError, and the global handler answers 500 for the rest.   *)
HttpStatus(o) ==
  IF o.kind = "ok" THEN 200
  ELSE IF o.err[1].type = "HTTPException" THEN o.err[1].status_code
  ELSE IF o.err[1].type = "WeatherServiceError"
       THEN (IF o.err[1].not_found_text THEN 400 ELSE 503)
       ELSE 500

Returns(t, rec) ==
  /\ pc' = [pc EXCEPT ![t] = "done"]
  /\ out' = [out EXCEPT ![t] = [kind |-> "ok", rec |-> Some(rec), err |-> None]]

Raises(t, e) ==
  /\ pc' = [pc EXCEPT ![t] = "done"]
  /\ out' = [out EXCEPT ![t] = [kind |-> "error", rec |-> None, err |-> Some(e)]]

Suspends(t, where) ==
  /\ pc' = [pc EXCEPT ![t] = where]
  /\ out' = out

(* ---------------------- WeatherService.get_weather -------------------- *)
(* From the call to the first suspension: the key is derived and           *)
(* cache.get is entered; with no Redis client cache.get returns None at    *)
(* once and the geocoding request is the first thing awaited.              *)
EnterGetWeather(t, city) ==
  LET key == CacheKeys[city]
  IN  /\ call' = [call EXCEPT ![t] = [city |-> city]]
      /\ prior' = [prior EXCEPT ![t] = {u \in Tasks : pc[u] = "done"}]
      /\ IF redis
         THEN /\ frame' = [frame EXCEPT ![t] =
                   [NoFrame EXCEPT !.cache_key = Some(key), !.sent = {"cache_get"},
                                   !.log = <<"cache_get">>]]
              /\ Suspends(t, "cache_get")
         ELSE /\ frame' = [frame EXCEPT ![t] =
                   [NoFrame EXCEPT !.cache_key = Some(key), !.sent = {"geocode"},
                                   !.log = <<"geocode">>]]
              /\ Suspends(t, "geocode")
      /\ UNCHANGED <<phase, redis, store, now, breaker, writer>>

(* A direct call of weather_service.get_weather(city) *)
ServiceGetWeather(t, city) ==
  /\ pc[t] = "idle"
  /\ phase = "serving"
  /\ EnterGetWeather(t, city)

(* The handler's test: not city or not city.strip() *)
city_missing_nostrip(city) == city = <<>>

city_missing(city) == city = <<>> \/ str_strip(city) = <<>>

(* GET /weather?city=...: the handler answers 400 for an empty or blank    *)
(* city before it calls the service.                                       *)
HttpGetWeather(t, city) ==
  /\ pc[t] = "idle"
  /\ phase = "serving"
  /\ IF city_missing(city)
     THEN /\ call' = [call EXCEPT ![t] = [city |-> city]]
          /\ prior' = [prior EXCEPT ![t] = {u \in Tasks : pc[u] = "done"}]
          /\ pc' = [pc EXCEPT ![t] = "done"]
          /\ out' = [out EXCEPT ![t] =
               [kind |-> "error", rec |-> None,
                err |-> Some(HTTPException(400, "city_required"))]]
          /\ UNCHANGED <<phase, redis, store, now, breaker, frame, writer>>
     ELSE EnterGetWeather(t, city)

RedisOutcomes == {"ok", "RedisError"}

(* CacheService.get after redis.get answered: the dict loaded from the     *)
(* stored text if the backend answered and the key is there, None on a     *)
(* RedisError, a JSONDecodeError or a missing key.                         *)
cache_get(key, redis_outcome) ==
  IF redis_outcome = "ok"
     /\ Truthy(IF store[key] = None THEN None ELSE Some(store[key][1].text))
     /\ ~JSONDecodeError(store[key][1].text)
  THEN Some(json_loads(store[key][1].text))
  ELSE None

(* await cache.get(cache_key) returns: a hit returns the cached record     *)
(* (building it is outside the try block, so a dict that does not validate *)
(* raises pydantic's ValidationError to the caller), a miss goes on to the *)
(* geocoding request.                                                      *)
(* variant: the cached record is handed out through weather_breaker *)
breaker_after_hit_guarded(b, clock) == breaker_call(b, clock, FALSE).breaker

(* the hit path returns before any decorated call is made *)
breaker_after_hit(b, clock) == b

CacheGetReturns(t, redis_outcome) ==
  /\ pc[t] = "cache_get"
  /\ LET cached_data == cache_get(frame[t].cache_key[1], redis_outcome)
     IN  IF Truthy(cached_data)
         THEN /\ frame' = [frame EXCEPT ![t].cached_data = cached_data]
              /\ breaker' = breaker_after_hit(breaker, now)
              /\ IF WeatherDataValidates(cached_data[1])
                 THEN Returns(t, WeatherDataFromCache(cached_data[1]))
                 ELSE Raises(t, [type |-> "ValidationError", msg |-> "cached_data",
                                 not_found_text |-> FALSE])
         ELSE /\ frame' = [frame EXCEPT ![t].cached_data = None,
                                        ![t].sent = @ \cup {"geocode"},
                                        ![t].log = Append(@, "geocode")]
              /\ breaker' = breaker
              /\ Suspends(t, "geocode")
  /\ UNCHANGED <<phase, redis, store, now, call, prior, writer>>

(* WeatherService._geocode_city after the request answered: the           *)
(* coordinates of the first result, or the exception raised.               *)
_geocode_city_unchecked(o) ==
  IF o.kind = "HTTPError"
  THEN [raised |-> Some(WeatherServiceError("geocoding_failed", o.not_found_text)),
        coords |-> None]
  ELSE IF o.kind = "Exception"
  THEN [raised |-> Some([type |-> "Exception", msg |-> "geocoding",
                         not_found_text |-> o.not_found_text]),
        coords |-> None]
  ELSE IF dict_get(o.data, "results", <<>>) = <<>>
  THEN [raised |-> None, coords |-> Some(Place1)]
  ELSE [raised |-> None, coords |-> Some(o.data["results"][1])]

_geocode_city_last(o) ==
  IF o.kind = "HTTPError"
  THEN [raised |-> Some(WeatherServiceError("geocoding_failed", o.not_found_text)),
        coords |-> None]
  ELSE IF o.kind = "Exception"
  THEN [raised |-> Some([type |-> "Exception", msg |-> "geocoding",
                         not_found_text |-> o.not_found_text]),
        coords |-> None]
  ELSE IF dict_get(o.data, "results", <<>>) = <<>>
  THEN [raised |-> Some(WeatherServiceError("city_not_found", TRUE)), coords |-> None]
  ELSE [raised |-> None, coords |-> Some(o.data["results"][Len(o.data["results"])])]

_geocode_city(o) ==
  IF o.kind = "HTTPError"
  THEN [raised |-> Some(WeatherServiceError("geocoding_failed", o.not_found_text)),
        coords |-> None]
  ELSE IF o.kind = "Exception"
  THEN [raised |-> Some([type |-> "Exception", msg |-> "geocoding",
                         not_found_text |-> o.not_found_text]),
        coords |-> None]
  ELSE IF dict_get(o.data, "results", <<>>) = <<>>
  THEN [raised |-> Some(WeatherServiceError("city_not_found", TRUE)), coords |-> None]
  ELSE [raised |-> None, coords |-> Some(o.data["results"][1])]

(* The except clauses of get_weather: what an exception raised inside the  *)
(* try block reaches the caller as.                                        *)
NormalizeError(e) ==
  IF e.type = "CircuitBreakerError" THEN WeatherServiceError("breaker_open", FALSE)
  ELSE IF e.type = "WeatherServiceError" THEN e
  ELSE WeatherServiceError("unexpected", e.not_found_text)

(* variant: _geocode_city is decorated with the breaker as well *)
breaker_after_geocode_error_guarded(b, clock) == _handle_error(b, clock).breaker

(* _geocode_city carries no decorator: what it raises reaches the except   *)
(* clauses of get_weather without passing through weather_breaker.         *)
breaker_after_geocode_error(b, clock) == b

(* await self._geocode_city(city) returns; on success the decorated        *)
(* _fetch_weather_data is called (through weather_breaker) and the         *)
(* coroutine it returns is awaited: the weather request is sent.           *)
GeocodeReturns(t, o) ==
  /\ pc[t] = "geocode"
  /\ LET g == _geocode_city(o)
         r == breaker_call(breaker, now, fetch_call_raises)
     IN  IF g.raised # None
         THEN /\ frame' = [frame EXCEPT ![t].geo =
                   IF o.kind = "json" THEN Some(dict_get(o.data, "results", <<>>))
                   ELSE None]
              /\ Raises(t, NormalizeError(g.raised[1]))
              /\ breaker' = breaker_after_geocode_error(breaker, now)
         ELSE /\ breaker' = r.breaker
              /\ IF r.raised = "no"
                 THEN /\ frame' = [frame EXCEPT ![t].geo = Some(o.data["results"]),
                                                ![t].coords = g.coords,
                                                ![t].sent = @ \cup {"weather"},
                                                ![t].log = Append(@, "weather")]
                      /\ Suspends(t, "fetch")
                 ELSE /\ frame' = [frame EXCEPT ![t].geo = Some(o.data["results"])]
                      /\ Raises(t, NormalizeError(
                           [type |-> IF r.raised = "CircuitBreakerError"
                                     THEN "CircuitBreakerError" ELSE "Exception",
                            msg |-> "breaker", not_found_text |-> FALSE]))
  /\ UNCHANGED <<phase, redis, store, now, call, prior, writer>>

(* variant: the record carries the city trimmed and lowercased *)
BuildResultNormalized(city, weather_data) ==
  LET current == dict_get(weather_data, "current_weather", EmptyDict)
  IN  WeatherData(str_strip(str_lower(city)),
                  dict_get(current, "temperature", 0),
                  dict_get(current, "windspeed", 0),
                  dict_get(current, "weathercode", 0),
                  FALSE)

(* variant: a response that lacks a field gives a record of zeros *)
BuildResultAllOrNothing(city, weather_data) ==
  LET current == dict_get(weather_data, "current_weather", EmptyDict)
      whole == {"temperature", "windspeed", "weathercode"} \subseteq DOMAIN current
  IN  WeatherData(city,
                  IF whole THEN current["temperature"] ELSE 0,
                  IF whole THEN current["windspeed"] ELSE 0,
                  IF whole THEN current["weathercode"] ELSE 0,
                  FALSE)

(* The record get_weather builds from the weather response *)
BuildResult(city, weather_data) ==
  LET current == dict_get(weather_data, "current_weather", EmptyDict)
  IN  WeatherData(city,
                  dict_get(current, "temperature", 0),
                  dict_get(current, "windspeed", 0),
                  dict_get(current, "weathercode", 0),
                  FALSE)

(* WeatherService._fetch_weather_data's coroutine after the request        *)
(* answered: the JSON, or the exception raised.                            *)
_fetch_weather_data(o) ==
  IF o.kind = "HTTPError"
  THEN [raised |-> Some(WeatherServiceError("weather_api_failed", o.not_found_text)),
        json |-> None]
  ELSE IF o.kind = "Exception"
  THEN [raised |-> Some([type |-> "Exception", msg |-> "weather",
                         not_found_text |-> o.not_found_text]),
        json |-> None]
  ELSE [raised |-> None, json |-> Some(o.data)]

(* variant: a failed weather request is sent a second time *)
FetchReturnsRetrying(t, o) ==
  /\ pc[t] = "fetch"
  /\ LET f == _fetch_weather_data(o)
     IN  IF f.raised # None
         THEN IF Len(frame[t].log) < 4
              THEN /\ frame' = [frame EXCEPT ![t].log = Append(@, "weather")]
                   /\ Suspends(t, "fetch")
              ELSE /\ frame' = frame
                   /\ Raises(t, NormalizeError(f.raised[1]))
         ELSE LET result == BuildResult(call[t].city, f.json[1])
              IN  IF redis
                  THEN /\ frame' = [frame EXCEPT ![t].weather_data = f.json,
                                                 ![t].result = Some(result),
                                                 ![t].sent = @ \cup {"cache_set"},
                                                 ![t].log = Append(@, "cache_set")]
                       /\ Suspends(t, "cache_set")
                  ELSE /\ frame' = [frame EXCEPT ![t].weather_data = f.json,
                                                 ![t].result = Some(result)]
                       /\ Returns(t, result)
  /\ UNCHANGED <<phase, redis, store, now, breaker, call, prior, writer>>

(* the awaited weather coroutine finishes; on success the record is built  *)
(* and cache.set is entered (it returns False at once with no client).     *)
FetchReturns(t, o) ==
  /\ pc[t] = "fetch"
  /\ LET f == _fetch_weather_data(o)
     IN  IF f.raised # None
         THEN /\ frame' = frame
              /\ Raises(t, NormalizeError(f.raised[1]))
         ELSE LET result == BuildResult(call[t].city, f.json[1])
              IN  IF redis
                  THEN /\ frame' = [frame EXCEPT ![t].weather_data = f.json,
                                                 ![t].result = Some(result),
                                                 ![t].sent = @ \cup {"cache_set"},
                                                 ![t].log = Append(@, "cache_set")]
                       /\ Suspends(t, "cache_set")
                  ELSE /\ frame' = [frame EXCEPT ![t].weather_data = f.json,
                                                 ![t].result = Some(result)]
                       /\ Returns(t, result)
  /\ UNCHANGED <<phase, redis, store, now, breaker, call, prior, writer>>

(* CacheService.set after redis.setex answered: the entry is written with  *)
(* the TTL if the backend answered, and get_weather returns the record.    *)
cache_set_entry_nottl(value) == [text |-> json_dumps(value), expires |-> now]

(* variant: the entry is given twice the configured TTL *)
cache_set_entry_long(value) ==
  [text |-> json_dumps(value), expires |-> now + 2 * cache_ttl]

cache_set_entry(value) == [text |-> json_dumps(value), expires |-> now + cache_ttl]

CacheSetReturnsStrict(t, redis_outcome) ==
  /\ pc[t] = "cache_set"
  /\ LET key == frame[t].cache_key[1]
         result == frame[t].result[1]
     IN  IF redis_outcome = "ok"
         THEN /\ store' = [store EXCEPT ![key] =
                   Some(cache_set_entry(model_dump_exclude_cached(result)))]
              /\ writer' = [writer EXCEPT ![key] = Some(result)]
              /\ Returns(t, result)
         ELSE /\ UNCHANGED <<store, writer>>
              /\ Raises(t, WeatherServiceError("unexpected", FALSE))
  /\ UNCHANGED <<phase, redis, now, breaker, call, frame, prior>>

(* variant: an entry already in the cache is not overwritten *)
CacheSetReturnsKeepFirst(t, redis_outcome) ==
  /\ pc[t] = "cache_set"
  /\ LET key == frame[t].cache_key[1]
         result == frame[t].result[1]
     IN  /\ IF redis_outcome = "ok" /\ store[key] = None
            THEN /\ store' = [store EXCEPT ![key] =
                      Some(cache_set_entry(model_dump_exclude_cached(result)))]
                 /\ writer' = [writer EXCEPT ![key] = Some(result)]
            ELSE UNCHANGED <<store, writer>>
         /\ Returns(t, result)
  /\ UNCHANGED <<phase, redis, now, breaker, call, frame, prior>>

CacheSetReturns(t, redis_outcome) ==
  /\ pc[t] = "cache_set"
  /\ LET key == frame[t].cache_key[1]
         result == frame[t].result[1]
     IN  /\ IF redis_outcome = "ok"
            THEN /\ store' = [store EXCEPT ![key] =
                      Some(cache_set_entry(model_dump_exclude_cached(result)))]
                 /\ writer' = [writer EXCEPT ![key] = Some(result)]
            ELSE UNCHANGED <<store, writer>>
         /\ Returns(t, result)
  /\ UNCHANGED <<phase, redis, now, breaker, call, frame, prior>>

(* The caller has its answer; the task can serve another call. *)
Collect(t) ==
  /\ pc[t] = "done"
  /\ pc' = [pc EXCEPT ![t] = "idle"]
  /\ call' = [call EXCEPT ![t] = NoCall]
  /\ frame' = [frame EXCEPT ![t] = NoFrame]
  /\ out' = [out EXCEPT ![t] = NoOut]
  /\ prior' = [u \in Tasks |-> IF u = t THEN {} ELSE prior[u] \ {t}]
  /\ UNCHANGED <<phase, redis, store, now, breaker, writer>>

(* ----------------------------- environment ---------------------------- *)
(* Time passes; Redis drops the keys whose TTL has run out. *)
Tick ==
  /\ now + TimeStep <= MaxTime
  /\ now' = now + TimeStep
  /\ store' = [k \in Keys |->
       IF store[k] # None /\ store[k][1].expires <= now + TimeStep THEN None
       ELSE store[k]]
  /\ writer' = [k \in Keys |-> IF store'[k] = None THEN None ELSE writer[k]]
  /\ prior' = [t \in Tasks |-> {}]
  /\ UNCHANGED <<phase, redis, breaker, pc, call, frame, out>>

(* lifespan startup: cache.connect() creates the client and pings; a       *)
(* failed ping re-raises and startup aborts.                               *)
Connect(redis_outcome) ==
  /\ phase = "created"
  /\ redis' = TRUE
  /\ phase' = IF redis_outcome = "ok" THEN "serving" ELSE "aborted"
  /\ UNCHANGED <<store, now, breaker, pc, call, frame, out, prior, writer>>

Next ==
  \/ \E ro \in RedisOutcomes : Connect(ro) /\ UNCHANGED <<hist, aux>>
  \/ \E t \in Requests, city \in Cities \ {EmptyCity} :
       ServiceGetWeather(t, city) /\ UNCHANGED <<hist, aux>>
  \/ \E t \in Requests, city \in Cities : HttpGetWeather(t, city) /\ UNCHANGED <<hist, aux>>
  \/ \E t \in Requests, ro \in RedisOutcomes : CacheGetReturns(t, ro) /\ UNCHANGED <<hist, aux>>
  \/ \E t \in Requests, o \in GeocodeOutcomes : GeocodeReturns(t, o) /\ UNCHANGED <<hist, aux>>
  \/ \E t \in Requests, o \in WeatherOutcomes : FetchReturns(t, o) /\ UNCHANGED <<hist, aux>>
  \/ \E t \in Requests, ro \in RedisOutcomes : CacheSetReturns(t, ro) /\ UNCHANGED <<hist, aux>>
  \/ \E t \in Requests : Collect(t) /\ UNCHANGED <<hist, aux>>
  \/ Tick /\ UNCHANGED <<hist, aux>>

Spec == Init /\ [][Next]_vars

(* --------------- the breaker's history, for one city ------------------ *)
(* The same program with the history of weather fetches recorded, started  *)
(* after a successful startup and asked for one city.                      *)
InitBreaker ==
  /\ phase = "serving"
  /\ redis = TRUE
  /\ store = [k \in Keys |-> None]
  /\ now = 0
  /\ breaker = NewBreaker
  /\ pc = [t \in Tasks |-> "idle"]
  /\ call = [t \in Tasks |-> NoCall]
  /\ frame = [t \in Tasks |-> NoFrame]
  /\ out = [t \in Tasks |-> NoOut]
  /\ prior = [t \in Tasks |-> {}]
  /\ writer = [k \in Keys |-> None]
  /\ consecFails = 0
  /\ lastFailAt = 0
  /\ trial = [t \in Tasks |-> FALSE]
  /\ cacheop = NoCacheOp
  /\ lastSet = [k \in Keys |-> None]
  /\ warm = NoWarm

BreakerGeocodeOutcomes == {o \in GeocodeOutcomes : o.kind = "json"}

BreakerWeatherOutcomes ==
  {o \in WeatherOutcomes : o.kind = "HTTPError" \/ "current_weather" \in DOMAIN o.data}

(* The weather fetch that begins now begins after the breaker should have  *)
(* opened and reset_timeout has passed since.                              *)
BeginsAsTrial ==
  /\ consecFails >= circuit_breaker_fail_max
  /\ now >= lastFailAt + circuit_breaker_timeout

ObserveBegin(t) ==
  /\ trial' = [trial EXCEPT ![t] = (pc'[t] = "fetch" /\ BeginsAsTrial)]
  /\ UNCHANGED <<consecFails, lastFailAt>>

Min(a, b) == IF a <= b THEN a ELSE b

ObserveFetch(t, o) ==
  /\ trial' = [trial EXCEPT ![t] = FALSE]
  /\ IF o.kind = "json"
     THEN consecFails' = 0 /\ lastFailAt' = 0
     ELSE LET n == Min(consecFails + 1, circuit_breaker_fail_max)
          IN  /\ consecFails' = n
              /\ lastFailAt' = IF n >= circuit_breaker_fail_max THEN now ELSE 0

NextBreaker ==
  \/ \E t \in Requests : ServiceGetWeather(t, Paris) /\ UNCHANGED <<hist, aux>>
  \/ \E t \in Requests, ro \in RedisOutcomes : CacheGetReturns(t, ro) /\ UNCHANGED <<hist, aux>>
  \/ \E t \in Requests, o \in BreakerGeocodeOutcomes :
       GeocodeReturns(t, o) /\ ObserveBegin(t) /\ UNCHANGED aux
  \/ \E t \in Requests, o \in BreakerWeatherOutcomes :
       FetchReturns(t, o) /\ ObserveFetch(t, o) /\ UNCHANGED aux
  \/ \E t \in Requests, ro \in RedisOutcomes : CacheSetReturns(t, ro) /\ UNCHANGED <<hist, aux>>
  \/ \E t \in Requests : Collect(t) /\ UNCHANGED <<hist, aux>>
  \/ Tick /\ UNCHANGED <<hist, aux>>

SpecBreaker == InitBreaker /\ [][NextBreaker]_vars

(* ======================= the circuit breaker ========================== *)
Unavailable(o) ==
  o.kind = "error" /\ o.err[1].type = "WeatherServiceError" /\ ~o.err[1].not_found_text

(* In this step task t, past geocoding, attempts the weather fetch. *)
AttemptsFetch(t) ==
  /\ pc[t] = "geocode"
  /\ \/ pc'[t] = "fetch"
     \/ pc'[t] = "done" /\ out'[t].kind = "error" /\ out'[t].err[1].msg = "breaker_open"

(* In this step the attempt of task t is rejected: no weather request is   *)
(* sent and the call fails as unavailable.                                 *)
IsRejected(t) ==
  /\ pc'[t] = "done"
  /\ Unavailable(out'[t])
  /\ "weather" \notin frame'[t].sent

FetchFails(t) == pc[t] = "fetch" /\ pc'[t] = "done" /\ out'[t].kind = "error"

FetchSucceeds(t) == pc[t] = "fetch" /\ ~(pc'[t] = "done" /\ out'[t].kind = "error") /\ pc'[t] # "fetch"

(* C1: once fail_max weather fetches in a row have failed, and until        *)
(* reset_timeout has passed since the last of them, every call that gets   *)
(* as far as the weather fetch is rejected as unavailable without a        *)
(* weather request being sent.                                             *)
C1_RejectsAfterFailMax ==
  [][(consecFails >= circuit_breaker_fail_max
        /\ now < lastFailAt + circuit_breaker_timeout)
      => \A t \in Tasks : AttemptsFetch(t) => IsRejected(t)]_vars

(* C2: once fail_max fetches in a row have failed and reset_timeout has    *)
(* passed, the next attempt half-opens the breaker and is let through; a   *)
(* trial fetch that succeeds leaves the breaker closed with counter 0.     *)
C2_HalfOpenAfterResetTimeout ==
  [][\A t \in Tasks :
       /\ (BeginsAsTrial /\ AttemptsFetch(t))
            => (breaker'.state = "half-open" /\ pc'[t] = "fetch")
       /\ (trial[t] /\ FetchSucceeds(t))
            => (breaker'.state = "closed" /\ breaker'.counter = 0)]_vars

(* C3: a trial fetch that fails puts the breaker back to open with         *)
(* opened_at at that failure, and while the breaker is open and            *)
(* reset_timeout has not passed since opened_at every attempt is rejected. *)
C3_FailedTrialReopens ==
  [][\A t \in Tasks :
       /\ (trial[t] /\ FetchFails(t))
            => (breaker'.state = "open" /\ breaker'.opened_at = Some(now))
       /\ (breaker.state = "open" /\ breaker.opened_at # None
             /\ now < breaker.opened_at[1] + circuit_breaker_timeout
             /\ AttemptsFetch(t))
            => IsRejected(t)]_vars

(* C4: the breaker starts closed with counter 0; a weather fetch that      *)
(* succeeds while the breaker is closed leaves the counter at 0; and the   *)
(* breaker is open only when the last fail_max weather fetches all failed. *)
C4_BreakerOpensOnlyAfterFailMax ==
  /\ breaker.state = "closed" /\ breaker.counter = 0
  /\ [](breaker.state = "open" => consecFails >= circuit_breaker_fail_max)
  /\ [][\A t \in Tasks :
          (breaker.state = "closed" /\ FetchSucceeds(t)) => breaker'.counter = 0]_vars

(* a fetch has just succeeded right after another call's fetch failed *)
C4_Witness ==
  \E t, u \in Tasks :
    /\ pc[t] = "cache_set" /\ frame[t].result # None
    /\ pc[u] = "done" /\ out[u].kind = "error"
    /\ out[u].err[1].msg = "weather_api_failed"
    /\ consecFails = 0
    /\ breaker.state = "closed" /\ breaker.counter = 0

(* C5: while a trial fetch is in flight, every other call that gets as far *)
(* as the weather fetch is rejected, so that at most one trial fetch is in *)
(* flight.                                                                 *)
C5_SingleTrialInFlight ==
  [][\A t \in Tasks :
       ((\E u \in Tasks \ {t} : pc[u] = "fetch" /\ trial[u]) /\ AttemptsFetch(t))
         => IsRejected(t)]_vars

(* ========================== the lookup ================================ *)
CityInputs == Cities \cup {ParisUpper}

(* the city trimmed and lowercased *)
Normalized == [c \in CityInputs |-> str_lower(str_strip(c))]

(* equal after trimming and lowercasing *)
NormEq(c1, c2) == Normalized[c1] = Normalized[c2]

KeysAgree ==
  \A c1, c2 \in CityInputs :
    NormEq(c1, c2) => _generate_cache_key(c1) = _generate_cache_key(c2)

IsBlank(c) == \A i \in 1..Len(c) : c[i] \in Whitespace

SameValues(r1, r2) ==
  /\ r1.temperature = r2.temperature
  /\ r1.wind_speed = r2.wind_speed
  /\ r1.weather_code = r2.weather_code

ReturnedOk(t) == pc[t] = "done" /\ out[t].kind = "ok"

C7_CachedFlagTellsOrigin ==
  \A t \in Tasks :
    ReturnedOk(t) =>
      LET r == out[t].rec[1]
      IN  /\ r.cached <=>
               /\ frame[t].cached_data # None
               /\ \A k \in {"city", "temperature", "wind_speed", "weather_code"} :
                    r[k] = frame[t].cached_data[1][k]
               /\ frame[t].sent \cap {"geocode", "weather"} = {}
          /\ ~r.cached <=>
               /\ frame[t].geo # None /\ frame[t].weather_data # None
               /\ {"geocode", "weather"} \subseteq frame[t].sent
               /\ frame[t].cached_data = None

(* one call answered from the cache and one answered from upstream *)
C7_Witness ==
  \E t, u \in Tasks :
    /\ ReturnedOk(t) /\ out[t].rec[1].cached /\ frame[t].sent = {"cache_get"}
    /\ ReturnedOk(u) /\ ~out[u].rec[1].cached /\ "weather" \in frame[u].sent

(* C8: the weather request carries the coordinates of the first geocoding  *)
(* result, and the record returned on a miss has the city as requested,    *)
(* the values of the weather response and cached=false.                    *)
C8_FreshRecordFromFirstResult ==
  \A t \in Tasks :
    /\ "weather" \in frame[t].sent
         => frame[t].coords = Some(frame[t].geo[1][1])
    /\ (ReturnedOk(t) /\ frame[t].weather_data # None
          /\ "current_weather" \in DOMAIN frame[t].weather_data[1])
         => LET r == out[t].rec[1]
                current == frame[t].weather_data[1]["current_weather"]
            IN  /\ r.city = call[t].city
                /\ r.temperature = current["temperature"]
                /\ r.wind_speed = current["windspeed"]
                /\ r.weather_code = current["weathercode"]
                /\ r.cached = FALSE

(* a miss for " paris " answered from two geocoding results *)
C8_Witness ==
  \E t \in Tasks :
    /\ ReturnedOk(t) /\ call[t].city = ParisPadded
    /\ frame[t].geo # None /\ Len(frame[t].geo[1]) = 2
    /\ frame[t].coords = Some(Place2)
    /\ out[t].rec[1] = WeatherData(ParisPadded, 155, 123, 1, FALSE)

(* C9: cities equal after trimming and lowercasing have the same cache     *)
(* key, so calls for them look up and store the same key.                  *)
C9_KeyIgnoresCaseAndPadding ==
  /\ KeysAgree
  /\ \A t, u \in Tasks :
       (frame[t].cache_key # None /\ frame[u].cache_key # None
          /\ NormEq(call[t].city, call[u].city))
         => frame[t].cache_key = frame[u].cache_key
  /\ \A t \in Tasks :
       (ReturnedOk(t) /\ frame[t].cached_data # None)
         => NormEq(frame[t].cached_data[1]["city"], call[t].city)

(* "Paris" answered from the entry stored for " paris " *)
C9_Witness ==
  \E t, u \in Tasks :
    /\ call[t].city = Paris /\ call[u].city = ParisPadded
    /\ ReturnedOk(u) /\ ~out[u].rec[1].cached
    /\ ReturnedOk(t) /\ out[t].rec[1].cached
    /\ out[t].rec[1].city = ParisPadded

(* C10, as stated: every call with an empty or blank city, through the     *)
(* handler or to the service, ends in an error answered 400 with no cache, *)
(* geocoding or weather call made.                                         *)
C10_BlankCityRejected ==
  \A t \in Tasks :
    (pc[t] # "idle" /\ IsBlank(call[t].city))
      => /\ pc[t] = "done"
         /\ out[t].kind = "error"
         /\ HttpStatus(out[t]) = 400
         /\ frame[t].sent = {}

(* C10, amended: GET /weather with an empty or blank city is answered 400  *)
(* at once with no cache, geocoding or weather call made, while            *)
(* WeatherService.get_weather itself goes on to the cache lookup.          *)
C10_HandlerRejectsBlankCity ==
  [][\A t \in Tasks, c \in Cities :
       /\ (IsBlank(c) /\ HttpGetWeather(t, c))
            => /\ pc'[t] = "done"
               /\ out'[t].kind = "error"
               /\ out'[t].err[1].type = "HTTPException"
               /\ HttpStatus(out'[t]) = 400
               /\ frame'[t].sent = {}
       /\ (IsBlank(c) /\ c # <<>> /\ ServiceGetWeather(t, c))
            => (pc'[t] = "cache_get" /\ frame'[t].sent = {"cache_get"})]_vars

(* the handler has answered 400 for a city of blanks *)
C10_Witness ==
  \E t \in Tasks :
    /\ pc[t] = "done" /\ call[t].city = BlankCity
    /\ out[t].kind = "error" /\ out[t].err[1].type = "HTTPException"
    /\ frame[t].sent = {}

(* ======================== failed lookups ============================== *)
FailedLookup(t) ==
  pc[t] = "done" /\ out[t].kind = "error" /\ out[t].err[1].type # "HTTPException"

(* C11: a lookup whose geocoding response has an empty result list ends    *)
(* in a not-found WeatherServiceError (answered 400), has sent no weather  *)
(* request and no cache write, and the step that ends it leaves the cache  *)
(* as it was.                                                              *)
C11_ZeroResultsIsNotFound ==
  /\ [](\A t \in Tasks :
          frame[t].geo = Some(<<>>)
            => /\ FailedLookup(t)
               /\ out[t].err[1] = WeatherServiceError("city_not_found", TRUE)
               /\ HttpStatus(out[t]) = 400
               /\ frame[t].sent \cap {"weather", "cache_set"} = {})
  /\ [][\A t \in Tasks :
          (pc[t] = "geocode" /\ frame'[t].geo = Some(<<>>)) => store' = store]_vars

(* a miss whose geocoding response had no results *)
C11_Witness ==
  \E t \in Tasks :
    /\ FailedLookup(t) /\ frame[t].geo = Some(<<>>)
    /\ frame[t].sent = {"cache_get", "geocode"}
    /\ store[frame[t].cache_key[1]] = None

(* C12: a failed lookup is answered 400 exactly when its geocoding         *)
(* response had zero results, and 503 otherwise.                           *)
C12_NotFoundOnlyForZeroResults ==
  \A t \in Tasks :
    FailedLookup(t)
      => HttpStatus(out[t]) = (IF frame[t].geo = Some(<<>>) THEN 400 ELSE 503)

(* ============== lookups over a cache that cannot be relied on ========= *)
(* get_weather("Paris") with the Redis client connected or never           *)
(* connected, and Redis holding for "Paris" nothing, a record, a dict      *)
(* that is not a record, or a text that is not JSON.                       *)
ParisKey == _generate_cache_key(Paris)

ParisRecord == [city |-> Paris, temperature |-> 155, wind_speed |-> 123, weather_code |-> 1]

PartialRecord == [city |-> Paris, temperature |-> 155]

StoredTexts == {json_dumps(ParisRecord), json_dumps(PartialRecord), MalformedText}

InitFaulty ==
  /\ phase = "serving"
  /\ redis \in BOOLEAN
  /\ \E e \in {None} \cup {Some([text |-> x, expires |-> cache_ttl]) : x \in StoredTexts} :
       store = [k \in Keys |-> IF k = ParisKey THEN e ELSE None]
  /\ now = 0
  /\ breaker = NewBreaker
  /\ pc = [t \in Tasks |-> "idle"]
  /\ call = [t \in Tasks |-> NoCall]
  /\ frame = [t \in Tasks |-> NoFrame]
  /\ out = [t \in Tasks |-> NoOut]
  /\ prior = [t \in Tasks |-> {}]
  /\ writer = [k \in Keys |-> None]
  /\ consecFails = 0
  /\ lastFailAt = 0
  /\ trial = [t \in Tasks |-> FALSE]
  /\ cacheop = NoCacheOp
  /\ lastSet = [k \in Keys |-> None]
  /\ warm = NoWarm

NextFaulty ==
  \/ \E t \in Requests : ServiceGetWeather(t, Paris) /\ UNCHANGED <<hist, aux>>
  \/ \E t \in Requests, ro \in RedisOutcomes : CacheGetReturns(t, ro) /\ UNCHANGED <<hist, aux>>
  \/ \E t \in Requests, o \in GeocodeOutcomes : GeocodeReturns(t, o) /\ UNCHANGED <<hist, aux>>
  \/ \E t \in Requests, o \in WeatherOutcomes : FetchReturns(t, o) /\ UNCHANGED <<hist, aux>>
  \/ \E t \in Requests, ro \in RedisOutcomes : CacheSetReturns(t, ro) /\ UNCHANGED <<hist, aux>>
  \/ \E t \in Requests : Collect(t) /\ UNCHANGED <<hist, aux>>
  \/ Tick /\ UNCHANGED <<hist, aux>>

SpecFaulty == InitFaulty /\ [][NextFaulty]_vars

(* C13: whatever the cache holds and the upstreams answer, a get_weather   *)
(* call that fails raises WeatherServiceError.                             *)
C13_OnlyWeatherServiceError ==
  \A t \in Tasks :
    (pc[t] = "done" /\ out[t].kind = "error")
      => out[t].err[1].type = "WeatherServiceError"

(* C15: a cache read that fails (no client, a RedisError, a text that is   *)
(* not JSON) sends the lookup on to geocoding, a cache write that fails    *)
(* (no client, a RedisError) still returns the record, and every record    *)
(* returned without a cache hit is the fresh one, with cached=false.       *)
C15_CacheFailuresFailOpen ==
  /\ [][\A t \in Tasks :
          /\ (~redis /\ pc[t] = "idle" /\ pc'[t] # "idle")
               => (pc'[t] = "geocode" /\ frame'[t].sent = {"geocode"})
          /\ CacheGetReturns(t, "RedisError") => pc'[t] = "geocode"
          /\ (pc[t] = "cache_get" /\ pc'[t] # "cache_get"
                /\ store[ParisKey] # None /\ JSONDecodeError(store[ParisKey][1].text))
               => pc'[t] = "geocode"
          /\ CacheSetReturns(t, "RedisError")
               => (pc'[t] = "done" /\ out'[t].kind = "ok"
                     /\ out'[t].rec = frame[t].result)
          /\ (~redis /\ pc[t] = "fetch" /\ frame'[t].result # None)
               => (pc'[t] = "done" /\ out'[t].kind = "ok"
                     /\ out'[t].rec = frame'[t].result)]_vars
  /\ [](\A t \in Tasks :
          (ReturnedOk(t) /\ frame[t].cached_data = None)
            => /\ frame[t].weather_data # None
               /\ out[t].rec[1] = BuildResult(call[t].city, frame[t].weather_data[1])
               /\ ~out[t].rec[1].cached)

(* with Redis holding a record that a failed read did not deliver, and the *)
(* write failing too, the call has returned the fresh record               *)
C15_Witness ==
  \E t \in Tasks :
    /\ redis /\ store[ParisKey] # None
    /\ store[ParisKey][1].text = json_dumps(ParisRecord)
    /\ ReturnedOk(t) /\ ~out[t].rec[1].cached
    /\ out[t].rec[1].temperature = 0
    /\ "cache_set" \in frame[t].sent

(* =================== CacheService called directly ===================== *)
(* The exception raised inside the try block of CacheService.get *)
get_raises(key, redis_outcome) ==
  IF redis_outcome = "RedisError" THEN Some("RedisError")
  ELSE IF store[key] # None /\ Truthy(Some(store[key][1].text))
          /\ JSONDecodeError(store[key][1].text)
       THEN Some("JSONDecodeError")
       ELSE None

(* CacheService.get(key), the whole call *)
CacheService_get_narrow(key, redis_outcome) ==
  IF ~redis THEN [ret |-> None, raised |-> None, calls |-> 0]
  ELSE LET e == get_raises(key, redis_outcome)
       IN  IF e # None /\ e[1] \notin {"RedisError"}
           THEN [ret |-> None, raised |-> e, calls |-> 1]
           ELSE [ret |-> cache_get(key, redis_outcome), raised |-> None, calls |-> 1]

CacheService_get(key, redis_outcome) ==
  IF ~redis THEN [ret |-> None, raised |-> None, calls |-> 0]
  ELSE LET e == get_raises(key, redis_outcome)
       IN  IF e # None /\ e[1] \notin {"RedisError", "JSONDecodeError"}
           THEN [ret |-> None, raised |-> e, calls |-> 1]
           ELSE [ret |-> cache_get(key, redis_outcome), raised |-> None, calls |-> 1]

(* CacheService.set(key, value), the whole call: what it returns and the   *)
(* entry it wrote, if any                                                  *)
CacheService_set(value, redis_outcome) ==
  IF ~redis THEN [ok |-> FALSE, entry |-> None, calls |-> 0]
  ELSE IF redis_outcome = "RedisError" THEN [ok |-> FALSE, entry |-> None, calls |-> 1]
  ELSE [ok |-> TRUE, entry |-> Some(cache_set_entry(value)), calls |-> 1]

CacheValues == {ParisRecord, PartialRecord}

CacheGet(key, redis_outcome) ==
  /\ LET r == CacheService_get(key, redis_outcome)
     IN  cacheop' = [op |-> "get", key |-> Some(key), ret |-> r.ret, ok |-> FALSE,
                     raised |-> r.raised, calls |-> r.calls]
  /\ UNCHANGED <<prog, hist, lastSet, warm>>

CacheSet(key, value, redis_outcome) ==
  /\ LET r == CacheService_set(value, redis_outcome)
     IN  /\ cacheop' = [op |-> "set", key |-> Some(key), ret |-> None, ok |-> r.ok,
                        raised |-> None, calls |-> r.calls]
         /\ store' = IF r.ok THEN [store EXCEPT ![key] = r.entry] ELSE store
         /\ lastSet' = IF r.ok THEN [lastSet EXCEPT ![key] = Some([value |-> value, at |-> now])]
                       ELSE lastSet
         /\ writer' = IF r.ok THEN [writer EXCEPT ![key] = None] ELSE writer
  /\ UNCHANGED <<phase, redis, now, breaker, pc, call, frame, out, prior, hist, warm>>

(* cache.get_stale(key): CacheService has no such attribute *)
CacheGetStale(key) ==
  /\ cacheop' = [op |-> "get_stale", key |-> Some(key), ret |-> None, ok |-> FALSE,
                 raised |-> Some("AttributeError"), calls |-> 0]
  /\ UNCHANGED <<prog, hist, lastSet, warm>>

(* Another client of the Redis server stores a text that is not JSON. *)
ForeignWrite(key) ==
  /\ store' = [store EXCEPT ![key] =
                 Some([text |-> MalformedText, expires |-> now + cache_ttl])]
  /\ lastSet' = [lastSet EXCEPT ![key] = None]
  /\ writer' = [writer EXCEPT ![key] = None]
  /\ UNCHANGED <<phase, redis, now, breaker, pc, call, frame, out, prior, hist,
                 cacheop, warm>>

InitCache ==
  /\ phase = "created"
  /\ redis \in BOOLEAN
  /\ store = [k \in Keys |-> None]
  /\ now = 0
  /\ breaker = NewBreaker
  /\ pc = [t \in Tasks |-> "idle"]
  /\ call = [t \in Tasks |-> NoCall]
  /\ frame = [t \in Tasks |-> NoFrame]
  /\ out = [t \in Tasks |-> NoOut]
  /\ prior = [t \in Tasks |-> {}]
  /\ writer = [k \in Keys |-> None]
  /\ consecFails = 0
  /\ lastFailAt = 0
  /\ trial = [t \in Tasks |-> FALSE]
  /\ cacheop = NoCacheOp
  /\ lastSet = [k \in Keys |-> None]
  /\ warm = NoWarm

NextCache ==
  \/ \E k \in Keys, ro \in RedisOutcomes : CacheGet(k, ro)
  \/ \E k \in Keys, v \in CacheValues, ro \in RedisOutcomes : CacheSet(k, v, ro)
  \/ \E k \in Keys : CacheGetStale(k)
  \/ \E k \in Keys : ForeignWrite(k)
  \/ Tick /\ UNCHANGED <<hist, aux>>

SpecCache == InitCache /\ [][NextCache]_vars

(* C14: get and set never raise and send at most one Redis command; with   *)
(* no client they send none and return None and False; on a RedisError get *)
(* returns None and set returns False; on a text that is not JSON get      *)
(* returns None.                                                           *)
C14_CacheNeverRaises ==
  /\ [](cacheop.op \in {"get", "set"}
          => /\ cacheop.raised = None
             /\ cacheop.calls <= 1
             /\ ~redis => (cacheop.calls = 0 /\ cacheop.ret = None /\ ~cacheop.ok))
  /\ [][\A k \in Keys :
          /\ CacheGet(k, "RedisError") => (cacheop'.ret = None /\ cacheop'.raised = None)
          /\ (store[k] # None /\ store[k][1].text = MalformedText
                /\ \E ro \in RedisOutcomes : CacheGet(k, ro))
               => (cacheop'.ret = None /\ cacheop'.raised = None)
          /\ (\E v \in CacheValues : CacheSet(k, v, "RedisError"))
               => (~cacheop'.ok /\ cacheop'.raised = None /\ store' = store)]_vars

(* get has returned None for a key that holds a text that is not JSON *)
C14_Witness ==
  /\ redis
  /\ cacheop.op = "get" /\ cacheop.calls = 1
  /\ store[cacheop.key[1]] # None
  /\ store[cacheop.key[1]][1].text = MalformedText
  /\ cacheop.ret = None /\ cacheop.raised = None

(* C16: with a client and the backend answering, set returns True; get of  *)
(* a key returns the value of the last such set while its TTL has not run  *)
(* out, and None for a key never set.                                      *)
C16_SetThenGet ==
  [][\A k \in Keys :
       /\ (redis /\ \E v \in CacheValues : CacheSet(k, v, "ok"))
            => (cacheop'.ok /\ cacheop'.raised = None)
       /\ (redis /\ CacheGet(k, "ok"))
            => IF lastSet[k] = None THEN cacheop'.ret = None
               ELSE (now < lastSet[k][1].at + cache_ttl)
                      => cacheop'.ret = Some(lastSet[k][1].value)]_vars

(* get has returned the dict set 150 s before *)
C16_Witness ==
  /\ redis /\ now = TimeStep
  /\ cacheop.op = "get" /\ cacheop.ret = Some(PartialRecord)
  /\ lastSet[cacheop.key[1]] = Some([value |-> PartialRecord, at |-> 0])

(* C17: get_stale returns the value last set for the key, expired or not,  *)
(* None for a key never set and None with no client.                       *)
C17_StaleRead ==
  cacheop.op = "get_stale"
    => /\ cacheop.raised = None
       /\ cacheop.ret = IF redis /\ lastSet[cacheop.key[1]] # None
                        THEN Some(lastSet[cacheop.key[1]][1].value)
                        ELSE None

(* ============================ warm_cache ============================== *)
(* settings.popular_cities, cut down to two cities *)
popular_cities == <<Paris, ParisPadded>>

(* the cities argument: absent, or a list *)
WarmArgs == {None, Some(<<>>), Some(<<ParisPadded>>), Some(<<Paris, ParisPadded, Paris>>)}

(* variant: every city is warmed once, however often the list names it *)
cities_to_warm_distinct(arg) ==
  LET c == IF arg = None \/ arg[1] = <<>> THEN popular_cities ELSE arg[1]
      f[i \in 0..Len(c)] ==
        IF i = 0 THEN <<>>
        ELSE IF \E j \in 1..(i - 1) : c[j] = c[i] THEN f[i - 1]
        ELSE Append(f[i - 1], c[i])
  IN  f[Len(c)]

(* cities or settings.popular_cities *)
cities_to_warm(arg) == IF arg = None \/ arg[1] = <<>> THEN popular_cities ELSE arg[1]

(* warm_cache(cities) up to the await of gather *)
warm_cache_begin_always(w, arg) ==
  [w EXCEPT !.st = "running", !.arg = arg, !.cities = cities_to_warm(arg),
            !.started = [i \in 1..Len(cities_to_warm(arg)) |-> 0],
            !.results = [i \in 1..Len(cities_to_warm(arg)) |-> None]]

warm_cache_begin(w, arg) ==
  IF ~w.enabled
  THEN [w EXCEPT !.st = "done", !.arg = arg,
                 !.ret = Some([success |-> 0, failed |-> 0])]
  ELSE [w EXCEPT !.st = "running", !.arg = arg, !.cities = cities_to_warm(arg),
                 !.started = [i \in 1..Len(cities_to_warm(arg)) |-> 0],
                 !.results = [i \in 1..Len(cities_to_warm(arg)) |-> None]]

(* warm_city after get_weather returned or raised: True, False, or the     *)
(* exception neither except clause catches                                 *)
warm_city_narrow(o) ==
  IF o.kind = "ok" THEN [ok |-> TRUE, raised |-> None]
  ELSE IF o.err[1].type = "WeatherServiceError" THEN [ok |-> FALSE, raised |-> None]
  ELSE [ok |-> FALSE, raised |-> o.err]

warm_city(o) ==
  IF o.kind = "ok" THEN [ok |-> TRUE, raised |-> None]
  ELSE IF o.err[1].type = "WeatherServiceError" THEN [ok |-> FALSE, raised |-> None]
  ELSE [ok |-> FALSE, raised |-> None]

(* sum(1 for r in results if r is True) *)
RECURSIVE success_count(_)
success_count(results) ==
  IF results = <<>> THEN 0
  ELSE (IF Head(results)[1].ok THEN 1 ELSE 0) + success_count(Tail(results))

WarmCacheCall(arg) ==
  /\ warm.st = "idle"
  /\ phase = "serving"
  /\ warm' = warm_cache_begin(warm, arg)
  /\ UNCHANGED <<prog, hist, cacheop, lastSet>>

(* variant: the cities are looked up one after the other *)
WarmCityStartSequential(i) ==
  /\ warm.st = "running"
  /\ i \in DOMAIN warm.results
  /\ warm.results[i] = None
  /\ \A j \in 1..(i - 1) : warm.results[j] # None
  /\ ServiceGetWeather(i, warm.cities[i])
  /\ warm' = [warm EXCEPT !.started[i] = @ + 1]
  /\ UNCHANGED <<hist, cacheop, lastSet>>

(* gather runs warm_city(cities[i]) as task i, which calls get_weather *)
WarmCityStart(i) ==
  /\ warm.st = "running"
  /\ i \in DOMAIN warm.results
  /\ warm.results[i] = None
  /\ ServiceGetWeather(i, warm.cities[i])
  /\ warm' = [warm EXCEPT !.started[i] = @ + 1]
  /\ UNCHANGED <<hist, cacheop, lastSet>>

(* get_weather has returned or raised in task i: warm_city returns, and an *)
(* exception it does not catch leaves gather and warm_cache.               *)
WarmCityReturns(i) ==
  /\ warm.st = "running"
  /\ i \in DOMAIN warm.results
  /\ pc[i] = "done"
  /\ LET r == warm_city(out[i])
     IN  warm' = IF r.raised # None
                 THEN [warm EXCEPT !.st = "done", !.raised = r.raised]
                 ELSE [warm EXCEPT !.results[i] =
                         Some([city |-> call[i].city, ok |-> r.ok, err |-> out[i].err])]
  /\ Collect(i)
  /\ UNCHANGED <<hist, cacheop, lastSet>>

(* gather has all the results: the counts are returned *)
WarmCacheReturns ==
  /\ warm.st = "running"
  /\ \A i \in DOMAIN warm.results : warm.results[i] # None
  /\ LET success == success_count(warm.results)
     IN  warm' = [warm EXCEPT !.st = "done",
                    !.ret = Some([success |-> success,
                                  failed |-> Len(warm.results) - success])]
  /\ UNCHANGED <<prog, hist, cacheop, lastSet>>

InitWarmer ==
  /\ phase = "serving"
  /\ redis = TRUE
  /\ \E e \in {None, Some([text |-> json_dumps(PartialRecord), expires |-> cache_ttl])} :
       store = [k \in Keys |-> IF k = ParisKey THEN e ELSE None]
  /\ now = 0
  /\ breaker = NewBreaker
  /\ pc = [t \in Tasks |-> "idle"]
  /\ call = [t \in Tasks |-> NoCall]
  /\ frame = [t \in Tasks |-> NoFrame]
  /\ out = [t \in Tasks |-> NoOut]
  /\ prior = [t \in Tasks |-> {}]
  /\ writer = [k \in Keys |-> None]
  /\ consecFails = 0
  /\ lastFailAt = 0
  /\ trial = [t \in Tasks |-> FALSE]
  /\ cacheop = NoCacheOp
  /\ lastSet = [k \in Keys |-> None]
  /\ \E e \in BOOLEAN : warm = [NoWarm EXCEPT !.enabled = e]

NextWarmer ==
  \/ \E arg \in WarmArgs : WarmCacheCall(arg)
  \/ \E i \in Tasks : WarmCityStart(i)
  \/ \E t \in Tasks, ro \in RedisOutcomes : CacheGetReturns(t, ro) /\ UNCHANGED <<hist, aux>>
  \/ \E t \in Tasks, o \in GeocodeOutcomes : GeocodeReturns(t, o) /\ UNCHANGED <<hist, aux>>
  \/ \E t \in Tasks, o \in WeatherOutcomes : FetchReturns(t, o) /\ UNCHANGED <<hist, aux>>
  \/ \E t \in Tasks, ro \in RedisOutcomes : CacheSetReturns(t, ro) /\ UNCHANGED <<hist, aux>>
  \/ \E i \in Tasks : WarmCityReturns(i)
  \/ WarmCacheReturns

SpecWarmer == InitWarmer /\ [][NextWarmer]_vars

(* C18: warm_cache never raises; when it returns, every city of the list  *)
(* has been looked up, a lookup that raised anything is counted in failed, *)
(* and success is the number of lookups that returned a record.            *)
C18_WarmCacheCountsFailures ==
  /\ warm.raised = None
  /\ \A i \in DOMAIN warm.results :
       warm.results[i] # None => (warm.results[i][1].ok <=> warm.results[i][1].err = None)
  /\ (warm.st = "done" /\ warm.enabled)
       => /\ Len(warm.results) = Len(warm.cities)
          /\ \A i \in 1..Len(warm.cities) :
               warm.results[i] # None /\ warm.results[i][1].city = warm.cities[i]
          /\ warm.ret = Some(
               [success |-> Cardinality({i \in DOMAIN warm.results : warm.results[i][1].ok}),
                failed |-> Cardinality({i \in DOMAIN warm.results : ~warm.results[i][1].ok})])

(* three cities, one of them with zero geocoding results: 2 and 1 *)
C18_Witness ==
  /\ warm.st = "done" /\ Len(warm.cities) = 3
  /\ warm.ret = Some([success |-> 2, failed |-> 1])
  /\ warm.results[2] # None
  /\ warm.results[2][1].err = Some(WeatherServiceError("city_not_found", TRUE))

(* C19: with warming disabled the call returns 0 and 0 at once, whatever   *)
(* the list, no lookup is ever begun, and no step changes the cache, the   *)
(* breaker or any other state of the service.                              *)
C19_DisabledWarmerDoesNothing ==
  /\ [][~warm.enabled
          => /\ UNCHANGED prog
             /\ (warm.st = "idle" /\ warm'.st # "idle")
                  => /\ warm'.st = "done"
                     /\ warm'.ret = Some([success |-> 0, failed |-> 0])
                     /\ warm'.raised = None]_vars
  /\ [](~warm.enabled => \A t \in Tasks : pc[t] = "idle" /\ frame[t].sent = {})

(* disabled, called with three cities *)
C19_Witness ==
  /\ ~warm.enabled /\ warm.st = "done"
  /\ warm.arg = Some(<<Paris, ParisPadded, Paris>>)
  /\ warm.ret = Some([success |-> 0, failed |-> 0])

(* C20: the cities looked up are those of the list passed, element by      *)
(* element, and those of the configured list only when no list is passed.  *)
C20_WarmsExactlyTheListGiven ==
  (warm.st = "done" /\ warm.enabled)
    => LET expected == IF warm.arg = None THEN popular_cities ELSE warm.arg[1]
       IN  /\ Len(warm.results) = Len(expected)
           /\ \A i \in 1..Len(expected) :
                warm.results[i] # None /\ warm.results[i][1].city = expected[i]

(* The event loop runs every task that is ready, and every request sent to *)
(* Redis or upstream is answered: each enabled step is eventually taken.   *)
SpecWarmerFair == InitWarmer /\ [][NextWarmer]_vars /\ WF_vars(NextWarmer)

(* C21: the lookups of one warm_cache call run as one concurrent batch: a  *)
(* lookup that has not started can start whatever the state of the others; *)
(* the counts are returned only once every lookup has resolved; and, every *)
(* lookup resolving, a running warm_cache call returns.                    *)
C21_BatchRunsConcurrentlyAndReturns ==
  /\ [](\A i \in Tasks :
         (warm.st = "running" /\ i \in DOMAIN warm.started /\ warm.started[i] = 0)
           => ENABLED WarmCityStart(i))
  /\ [](\A i \in Tasks :
         (warm.st = "done" /\ warm.ret # None /\ i \in DOMAIN warm.results)
           => (warm.results[i] # None /\ pc[i] = "idle"))
  /\ ((warm.st = "running") ~> (warm.st = "done" /\ warm.ret # None))

(* all three lookups of one batch are in flight, none has resolved *)
C21_Witness ==
  /\ warm.st = "running"
  /\ Len(warm.cities) = 3
  /\ \A i \in 1..3 : warm.started[i] = 1 /\ warm.results[i] = None /\ pc[i] # "done"
  /\ pc[1] = "fetch" /\ pc[3] = "cache_get"

(* ============================ startup ================================= *)
(* lifespan: cache.connect() is awaited; when it raises, the exception is  *)
(* logged and raised again, and nothing after it runs.  Otherwise, with    *)
(* cache_warming_enabled, delayed_cache_warming is handed to               *)
(* asyncio.create_task and the lifespan yields at once: the application    *)
(* serves.  warm.st = "scheduled" is the task created and not yet past its *)
(* sleep.                                                                  *)

(* variant: the task is created whether or not connect succeeded *)
create_warming_task_always(connected, w) ==
  IF w.enabled THEN [w EXCEPT !.st = "scheduled"] ELSE w

(* variant: the lifespan awaits warm_cache itself before it yields *)
create_warming_task_inline(connected, w) ==
  IF connected /\ w.enabled THEN warm_cache_begin(w, None) ELSE w

create_warming_task(connected, w) ==
  IF connected /\ w.enabled THEN [w EXCEPT !.st = "scheduled"] ELSE w

Lifespan(redis_outcome) ==
  /\ Connect(redis_outcome)
  /\ warm' = create_warming_task(redis_outcome = "ok", warm)
  /\ UNCHANGED <<hist, cacheop, lastSet>>

(* delayed_cache_warming, its sleep over, calls warm_cache() *)
DelayedWarming ==
  /\ warm.st = "scheduled"
  /\ warm' = warm_cache_begin(warm, None)
  /\ UNCHANGED <<prog, hist, cacheop, lastSet>>

(* the tasks that serve requests beside the lookups of the warming task *)
RequestTasks == Tasks \ (1..Len(popular_cities))

InitStartup ==
  /\ phase = "created"
  /\ redis = FALSE
  /\ store = [k \in Keys |-> None]
  /\ now = 0
  /\ breaker = NewBreaker
  /\ pc = [t \in Tasks |-> "idle"]
  /\ call = [t \in Tasks |-> NoCall]
  /\ frame = [t \in Tasks |-> NoFrame]
  /\ out = [t \in Tasks |-> NoOut]
  /\ prior = [t \in Tasks |-> {}]
  /\ writer = [k \in Keys |-> None]
  /\ consecFails = 0
  /\ lastFailAt = 0
  /\ trial = [t \in Tasks |-> FALSE]
  /\ cacheop = NoCacheOp
  /\ lastSet = [k \in Keys |-> None]
  /\ \E e \in BOOLEAN : warm = [NoWarm EXCEPT !.enabled = e]

NextStartup ==
  \/ \E ro \in RedisOutcomes : Lifespan(ro)
  \/ DelayedWarming
  \/ \E i \in Tasks : WarmCityStart(i)
  \/ \E t \in RequestTasks : HttpGetWeather(t, Paris) /\ UNCHANGED <<hist, aux>>
  \/ \E t \in Tasks, ro \in RedisOutcomes : CacheGetReturns(t, ro) /\ UNCHANGED <<hist, aux>>
  \/ \E t \in Tasks, o \in GeocodeOutcomes : GeocodeReturns(t, o) /\ UNCHANGED <<hist, aux>>
  \/ \E t \in Tasks, o \in WeatherOutcomes : FetchReturns(t, o) /\ UNCHANGED <<hist, aux>>
  \/ \E t \in Tasks, ro \in RedisOutcomes : CacheSetReturns(t, ro) /\ UNCHANGED <<hist, aux>>
  \/ \E i \in Tasks : WarmCityReturns(i)
  \/ WarmCacheReturns
  \/ \E t \in RequestTasks : Collect(t) /\ UNCHANGED <<hist, aux>>

SpecStartup == InitStartup /\ [][NextStartup]_vars

(* the warming task exists and has not finished *)
WarmingPending == warm.st \in {"scheduled", "running"}

(* C22: warming is a task of its own.  The step that makes the application  *)
(* ready leaves the warming task created and not yet started; while the     *)
(* task is pending an idle request task can take a request; and no step of  *)
(* the warming task, failed lookups included, takes the application out of  *)
(* service.                                                                 *)
C22_WarmingRunsBesideTheApplication ==
  /\ [][(phase = "created" /\ phase' = "serving")
         => /\ warm'.st = (IF warm.enabled THEN "scheduled" ELSE "idle")
            /\ \A t \in Tasks : pc'[t] = "idle"]_vars
  /\ [](\A t \in RequestTasks :
         (WarmingPending /\ pc[t] = "idle") => ENABLED HttpGetWeather(t, Paris))
  /\ [][phase = "serving" => phase' = "serving"]_vars

(* a request was answered while the warming task was still running, one of *)
(* whose lookups had already failed                                        *)
C22_Witness ==
  /\ phase = "serving"
  /\ warm.st = "running"
  /\ warm.results[1] # None /\ ~warm.results[1][1].ok
  /\ warm.results[2] = None
  /\ \E t \in RequestTasks : ReturnedOk(t)

(* C23: when connect fails at startup the application aborts: it is never  *)
(* ready, no warming task is created and no lookup is ever made.           *)
C23_FailedConnectAbortsStartup ==
  /\ [][\A ro \in RedisOutcomes : (ro # "ok" /\ Lifespan(ro))
         => (phase' = "aborted" /\ warm' = warm)]_vars
  /\ [](phase = "aborted"
         => (warm.st = "idle" /\ \A t \in Tasks : pc[t] = "idle"))
  /\ [][phase = "aborted" => phase' = "aborted"]_vars

(* startup has aborted with warming enabled in the settings *)
C23_Witness ==
  /\ phase = "aborted"
  /\ warm.enabled
  /\ warm.st = "idle"

(* ======================= connection and health ======================== *)
(* CacheService.is_connected(), the whole call: False with no client;      *)
(* otherwise one ping, True when it answers and False on a RedisError.     *)

(* variant: the RedisError of the ping is not caught *)
CacheService_is_connected_uncaught(redis_outcome) ==
  IF ~redis THEN [ok |-> FALSE, raised |-> None, calls |-> 0]
  ELSE IF redis_outcome = "RedisError"
       THEN [ok |-> FALSE, raised |-> Some("RedisError"), calls |-> 1]
       ELSE [ok |-> TRUE, raised |-> None, calls |-> 1]

CacheService_is_connected(redis_outcome) ==
  IF ~redis THEN [ok |-> FALSE, raised |-> None, calls |-> 0]
  ELSE IF redis_outcome = "RedisError"
       THEN [ok |-> FALSE, raised |-> None, calls |-> 1]
       ELSE [ok |-> TRUE, raised |-> None, calls |-> 1]

CacheIsConnected(redis_outcome) ==
  /\ LET r == CacheService_is_connected(redis_outcome)
     IN  cacheop' = [op |-> "is_connected", key |-> None, ret |-> None, ok |-> r.ok,
                     raised |-> r.raised, calls |-> r.calls]
  /\ UNCHANGED <<prog, hist, lastSet, warm>>

HealthResponse(status, redis_connected) ==
  [status |-> status, version |-> "app_version", redis_connected |-> redis_connected]

(* what each handler returns or raises, given what is_connected returned *)
health_check(redis_connected) ==
  [kind |-> "ok",
   rec |-> Some(HealthResponse(IF redis_connected THEN "healthy" ELSE "degraded",
                               redis_connected)),
   err |-> None]

liveness == [kind |-> "ok", rec |-> Some([status |-> "alive"]), err |-> None]

(* variant: the probe answers ready whatever is_connected returned *)
readiness_always(redis_connected) ==
  [kind |-> "ok", rec |-> Some(HealthResponse("ready", redis_connected)), err |-> None]

readiness(redis_connected) ==
  IF ~redis_connected
  THEN [kind |-> "error", rec |-> None,
        err |-> Some(HTTPException(503, "not_ready"))]
  ELSE [kind |-> "ok", rec |-> Some(HealthResponse("ready", redis_connected)),
        err |-> None]

(* an exception of is_connected would leave the handler as it is *)
Responds(t, c, response) ==
  /\ pc[t] = "idle"
  /\ pc' = [pc EXCEPT ![t] = "done"]
  /\ out' = [out EXCEPT ![t] =
       IF c.raised # None
       THEN [kind |-> "error", rec |-> None,
             err |-> Some([type |-> c.raised[1], msg |-> "ping",
                           not_found_text |-> FALSE])]
       ELSE response]
  /\ UNCHANGED <<phase, redis, store, now, breaker, call, frame, prior, writer>>

(* GET /health *)
HealthCheck(t, redis_outcome) ==
  LET c == CacheService_is_connected(redis_outcome)
  IN  Responds(t, c, health_check(c.ok))

(* GET /health/live *)
Liveness(t) ==
  Responds(t, [ok |-> TRUE, raised |-> None, calls |-> 0], liveness)

(* GET /health/ready *)
Readiness(t, redis_outcome) ==
  LET c == CacheService_is_connected(redis_outcome)
  IN  Responds(t, c, readiness(c.ok))

NextHealth ==
  \/ \E ro \in RedisOutcomes : Connect(ro) /\ UNCHANGED <<hist, aux>>
  \/ \E ro \in RedisOutcomes : CacheIsConnected(ro)
  \/ \E t \in Requests, ro \in RedisOutcomes : HealthCheck(t, ro) /\ UNCHANGED <<hist, aux>>
  \/ \E t \in Requests : Liveness(t) /\ UNCHANGED <<hist, aux>>
  \/ \E t \in Requests, ro \in RedisOutcomes : Readiness(t, ro) /\ UNCHANGED <<hist, aux>>
  \/ \E t \in Requests : Collect(t) /\ UNCHANGED <<hist, aux>>

SpecHealth == InitCache /\ [][NextHealth]_vars

(* C24: is_connected never raises; it returns True exactly when a client   *)
(* exists and its ping is answered, and False, without a ping, when no     *)
(* client was ever created.                                                *)
C24_IsConnectedNeverRaises ==
  [][\A ro \in RedisOutcomes : CacheIsConnected(ro)
       => /\ cacheop'.raised = None
          /\ cacheop'.ok = (redis /\ ro = "ok")
          /\ (~redis => cacheop'.calls = 0)]_vars

(* connect has failed, the client exists, and is_connected returned False  *)
(* after a ping that failed                                                *)
C24_Witness ==
  /\ phase = "aborted"
  /\ redis
  /\ cacheop.op = "is_connected"
  /\ ~cacheop.ok
  /\ cacheop.calls = 1
  /\ cacheop.raised = None

(* C25: /health answers 200, healthy when the cache is connected and       *)
(* degraded otherwise; /health/ready answers 200 ready exactly when the     *)
(* cache is connected and 503 otherwise; /health/live answers 200 alive    *)
(* whatever the cache does.                                                *)
C25_HealthEndpoints ==
  [][\A t \in Requests, ro \in RedisOutcomes :
       LET connected == redis /\ ro = "ok"
           o == out'[t]
       IN  /\ HealthCheck(t, ro)
                => /\ HttpStatus(o) = 200
                   /\ o.rec[1].status = (IF connected THEN "healthy" ELSE "degraded")
                   /\ o.rec[1].redis_connected = connected
           /\ Readiness(t, ro)
                => IF connected
                   THEN HttpStatus(o) = 200 /\ o.rec[1].status = "ready"
                   ELSE HttpStatus(o) = 503
           /\ Liveness(t)
                => HttpStatus(o) = 200 /\ o.rec[1] = [status |-> "alive"]]_vars

(* with the client present and its ping failing, one request was answered  *)
(* degraded and the other 503                                              *)
C25_Witness ==
  /\ redis
  /\ \E t, u \in Requests :
       /\ pc[t] = "done" /\ out[t].kind = "ok"
       /\ out[t].rec[1].status = "degraded"
       /\ pc[u] = "done" /\ HttpStatus(out[u]) = 503

(* ====================== the breaker's reach =========================== *)
(* the geocoding request failed or found no place *)
GeocodingFailed(o) ==
  o.kind # "json" \/ dict_get(o.data, "results", <<>>) = <<>>

(* C26: only the weather fetch goes through the breaker: a lookup whose    *)
(* geocoding fails or finds no place ends without a weather request and    *)
(* leaves the breaker's state and failure counter as they were.            *)
C26_GeocodingBypassesBreaker ==
  [][\A t \in Tasks, o \in GeocodeOutcomes :
       (GeocodeReturns(t, o) /\ GeocodingFailed(o))
         => /\ breaker'.state = breaker.state
            /\ breaker'.counter = breaker.counter
            /\ "weather" \notin frame'[t].sent
            /\ pc'[t] = "done"]_vars

(* one lookup ended on a failed geocoding request and another on a         *)
(* response without results, and the breaker is closed with no failure     *)
(* counted                                                                 *)
C26_Witness ==
  /\ breaker.state = "closed" /\ breaker.counter = 0
  /\ \E t, u \in Tasks :
       /\ FailedLookup(t) /\ out[t].err[1].msg = "geocoding_failed"
       /\ frame[t].log = <<"cache_get", "geocode">>
       /\ FailedLookup(u) /\ out[u].err[1].msg = "city_not_found"
       /\ frame[u].geo = Some(<<>>)

(* ============================ no retries ============================== *)
(* how many requests of one kind the call of task t has sent *)
SentCount(t, kind) ==
  Cardinality({i \in DOMAIN frame[t].log : frame[t].log[i] = kind})

(* C27: nothing is retried.  A get_weather call sends at most one cache    *)
(* read, one geocoding request, one weather request and one cache write,   *)
(* whatever failed on its way; and warm_cache calls get_weather at most    *)
(* once for each city of its list, exactly once by the time it returns.    *)
C27_NothingIsRetried ==
  /\ \A t \in Tasks, kind \in RequestKinds : SentCount(t, kind) <= 1
  /\ \A t \in Tasks : Len(frame[t].log) <= 4
  /\ \A i \in DOMAIN warm.started :
       /\ warm.started[i] <= 1
       /\ (warm.st = "done" /\ warm.ret # None) => warm.started[i] = 1

(* warm_cache has returned after three lookups, one of which ended on a    *)
(* failed weather request and was counted as failed                        *)
C27_Witness ==
  /\ warm.st = "done" /\ warm.ret # None
  /\ Len(warm.started) = 3
  /\ warm.ret[1].failed >= 1
  /\ \E i \in 1..3 :
       /\ warm.results[i][1].err # None
       /\ warm.results[i][1].err[1].msg = "weather_api_failed"

(* ========================= what the cache holds ======================= *)
(* the records a successful weather fetch can give *)
FreshRecords ==
  {[city |-> c, temperature |-> v[1], wind_speed |-> v[2], weather_code |-> v[3]] :
     c \in Cities, v \in {<<155, 123, 1>>, <<0, 0, 0>>}}

(* the dict stored under key k *)
Entry(k) == json_loads(store[k][1].text)

(* task t ends its call on an exception *)
FailsNow(t) == pc[t] # "done" /\ pc'[t] = "done" /\ out'[t].kind = "error"

(* C28: an entry is written only by the last step of a get_weather call    *)
(* that missed the cache, found the place and fetched its weather, and it  *)
(* holds the city and the values of that fetch; every entry in the cache   *)
(* is the record of a fetch; a call that ends on an error leaves the cache *)
(* as it was.                                                              *)
C28_EntriesComeFromFreshFetches ==
  /\ [](\A k \in Keys : store[k] # None
         => /\ DOMAIN Entry(k) = {"city", "temperature", "wind_speed", "weather_code"}
            /\ Entry(k) \in FreshRecords
            /\ CacheKeys[Entry(k)["city"]] = k)
  /\ [][\A k \in Keys : (store'[k] # store[k] /\ store'[k] # None)
         => \E t \in Tasks :
              /\ pc[t] = "cache_set" /\ pc'[t] = "done"
              /\ frame[t].cache_key = Some(k)
              /\ frame[t].log = <<"cache_get", "geocode", "weather", "cache_set">>
              /\ frame[t].cached_data = None
              /\ frame[t].coords # None
              /\ frame[t].weather_data # None
              /\ json_loads(store'[k][1].text) =
                   [f \in {"city", "temperature", "wind_speed", "weather_code"} |->
                      IF f = "city" THEN call[t].city
                      ELSE IF f = "temperature"
                      THEN dict_get(dict_get(frame[t].weather_data[1], "current_weather",
                                             EmptyDict), "temperature", 0)
                      ELSE IF f = "wind_speed"
                      THEN dict_get(dict_get(frame[t].weather_data[1], "current_weather",
                                             EmptyDict), "windspeed", 0)
                      ELSE dict_get(dict_get(frame[t].weather_data[1], "current_weather",
                                             EmptyDict), "weathercode", 0)]]_vars
  /\ [][(\E t \in Tasks : FailsNow(t)) => store' = store]_vars

(* an entry with the fetched values is in the cache, and a lookup of the   *)
(* same city has failed on its weather request                             *)
C28_Witness ==
  /\ store[CacheKeys[Paris]] # None
  /\ Entry(CacheKeys[Paris])["temperature"] = 155
  /\ \E t \in Tasks :
       /\ FailedLookup(t)
       /\ call[t].city = Paris
       /\ out[t].err[1].msg = "weather_api_failed"

(* the keys of a stored text, in the order they were written *)
TextKeys(text) == [i \in 1..Len(text) |-> text[i][1]]

(* task t returns a record now, having waited at where *)
ReturnsNowFrom(t, where) ==
  pc[t] \in where /\ pc'[t] = "done" /\ out'[t].kind = "ok"

(* C29: the cached flag is never stored.  Every entry get_weather writes   *)
(* has the keys city, temperature, wind_speed and weather_code, all four   *)
(* and no other; the flag is true on the record a hit returns, which       *)
(* leaves the stored text as it was, and false on a freshly fetched one.   *)
C29_CachedFlagNeverStored ==
  /\ [](\A k \in Keys : store[k] # None => TextKeys(store[k][1].text) = StoredFields)
  /\ [][\A t \in Tasks :
         /\ ReturnsNowFrom(t, {"cache_get"})
              => (out'[t].rec[1].cached /\ store' = store)
         /\ ReturnsNowFrom(t, {"fetch", "cache_set"})
              => ~out'[t].rec[1].cached]_vars

(* a hit has returned a record flagged as cached while the entry it was    *)
(* read from has four keys and no flag                                     *)
C29_Witness ==
  \E t \in Tasks :
    /\ ReturnedOk(t)
    /\ out[t].rec[1].cached
    /\ store[frame[t].cache_key[1]] # None
    /\ Len(store[frame[t].cache_key[1]][1].text) = 4
    /\ \A i \in 1..4 : store[frame[t].cache_key[1]][1].text[i][1] # "cached"

(* ============================= expiry ================================= *)
(* C30: an entry lives cache_ttl seconds from the write that made it.  An  *)
(* entry in the cache was written at most cache_ttl seconds ago and has    *)
(* not expired; a hit is served before the expiry of its entry and leaves  *)
(* entry and expiry as they were; an entry appears or changes only with an *)
(* expiry a full cache_ttl ahead; and a read that finds no entry, as the   *)
(* first one after the expiry does, goes on to the geocoding request.      *)
C30_EntryLivesOneTtl ==
  /\ [](\A k \in Keys : store[k] # None
         => (now < store[k][1].expires /\ store[k][1].expires <= now + cache_ttl))
  /\ [][\A t \in Tasks : ReturnsNowFrom(t, {"cache_get"})
         => /\ store[frame[t].cache_key[1]] # None
            /\ now < store[frame[t].cache_key[1]][1].expires
            /\ store' = store]_vars
  /\ [][\A k \in Keys : (store'[k] # store[k] /\ store'[k] # None)
         => (store'[k][1].expires = now + cache_ttl /\ now' = now)]_vars
  /\ [][\A t \in Tasks :
         (pc[t] = "cache_get" /\ pc'[t] # "cache_get"
            /\ store[frame[t].cache_key[1]] = None)
         => (pc'[t] = "geocode" /\ "geocode" \in frame'[t].sent)]_vars

(* a full TTL after the first write the entry that one call was served     *)
(* from is gone, and a lookup of the same key begun after that call has    *)
(* missed and sent its geocoding request                                   *)
C30_Witness ==
  /\ now = cache_ttl
  /\ \E t, u \in Tasks :
       /\ ReturnedOk(u) /\ out[u].rec[1].cached
       /\ u \in prior[t]
       /\ frame[t].cache_key = frame[u].cache_key
       /\ store[frame[t].cache_key[1]] = None
       /\ pc[t] = "geocode"
       /\ frame[t].log = <<"cache_get", "geocode">>

(* ================ lookups under each breaker state ==================== *)
(* weather_breaker is a module-level object whose state get_weather reads  *)
(* and whose open and half_open methods set it from outside the service;   *)
(* the lookup is followed from each state the breaker can be left in, with *)
(* the cache empty or holding the record of Paris.                         *)
BreakerStates ==
  {NewBreaker,
   [state |-> "open", counter |-> circuit_breaker_fail_max, opened_at |-> Some(0)],
   [state |-> "half-open", counter |-> circuit_breaker_fail_max, opened_at |-> Some(0)]}

(* a weather response that has current_weather without all of its fields *)
PartialCurrent == [temperature |-> 155]

GuardedWeatherOutcomes ==
  WeatherOutcomes
    \cup {[kind |-> "json", data |-> [current_weather |-> PartialCurrent],
           not_found_text |-> FALSE]}

InitGuarded ==
  /\ phase = "serving"
  /\ redis = TRUE
  /\ \E e \in {None, Some([text |-> json_dumps(ParisRecord), expires |-> cache_ttl])} :
       store = [k \in Keys |-> IF k = ParisKey THEN e ELSE None]
  /\ now = 0
  /\ breaker \in BreakerStates
  /\ pc = [t \in Tasks |-> "idle"]
  /\ call = [t \in Tasks |-> NoCall]
  /\ frame = [t \in Tasks |-> NoFrame]
  /\ out = [t \in Tasks |-> NoOut]
  /\ prior = [t \in Tasks |-> {}]
  /\ writer = [k \in Keys |-> None]
  /\ consecFails = 0
  /\ lastFailAt = 0
  /\ trial = [t \in Tasks |-> FALSE]
  /\ cacheop = NoCacheOp
  /\ lastSet = [k \in Keys |-> None]
  /\ warm = NoWarm

NextGuarded ==
  \/ \E t \in Requests : ServiceGetWeather(t, Paris) /\ UNCHANGED <<hist, aux>>
  \/ \E t \in Requests, ro \in RedisOutcomes : CacheGetReturns(t, ro) /\ UNCHANGED <<hist, aux>>
  \/ \E t \in Requests, o \in GeocodeOutcomes : GeocodeReturns(t, o) /\ UNCHANGED <<hist, aux>>
  \/ \E t \in Requests, o \in GuardedWeatherOutcomes :
       FetchReturns(t, o) /\ UNCHANGED <<hist, aux>>
  \/ \E t \in Requests, ro \in RedisOutcomes : CacheSetReturns(t, ro) /\ UNCHANGED <<hist, aux>>
  \/ \E t \in Requests : Collect(t) /\ UNCHANGED <<hist, aux>>
  \/ Tick /\ UNCHANGED <<hist, aux>>

SpecGuarded == InitGuarded /\ [][NextGuarded]_vars

(* C31: whatever the state of the breaker, a read that finds the record of *)
(* the city returns it to the caller, flagged as cached, and leaves the    *)
(* breaker's state and failure counter as they were.                       *)
C31_HitIgnoresBreaker ==
  [][\A t \in Tasks :
       (pc[t] = "cache_get" /\ CacheGetReturns(t, "ok")
          /\ store[frame[t].cache_key[1]] # None)
         => /\ pc'[t] = "done"
            /\ out'[t].kind = "ok"
            /\ out'[t].rec[1].cached
            /\ breaker'.state = breaker.state
            /\ breaker'.counter = breaker.counter]_vars

(* a hit has been served while the breaker is open *)
C31_Witness ==
  /\ breaker.state = "open"
  /\ \E t \in Tasks :
       /\ ReturnedOk(t) /\ out[t].rec[1].cached
       /\ frame[t].log = <<"cache_get">>

(* the breaker is open and reset_timeout has not passed since it opened *)
Rejecting ==
  /\ breaker.state = "open"
  /\ breaker.opened_at # None
  /\ now < breaker.opened_at[1] + circuit_breaker_timeout

(* C32: while the breaker rejects, a call that misses the cache still      *)
(* sends its geocoding request; when geocoding answers with a place the    *)
(* call ends as breaker-open without a weather request, and when it fails  *)
(* or finds no place the call ends on that failure, not on breaker-open.   *)
C32_OpenBreakerSuppressesOnlyTheFetch ==
  /\ [][\A t \in Tasks :
         (Rejecting /\ pc[t] = "cache_get" /\ pc'[t] # "cache_get"
            /\ store[frame[t].cache_key[1]] = None)
         => (pc'[t] = "geocode" /\ frame'[t].log = <<"cache_get", "geocode">>)]_vars
  /\ [][\A t \in Tasks, o \in GeocodeOutcomes :
         (Rejecting /\ GeocodeReturns(t, o))
         => /\ pc'[t] = "done"
            /\ out'[t].kind = "error"
            /\ "weather" \notin frame'[t].sent
            /\ frame'[t].log = <<"cache_get", "geocode">>
            /\ IF ~GeocodingFailed(o)
               THEN out'[t].err[1].msg = "breaker_open"
               ELSE /\ out'[t].err[1].msg # "breaker_open"
                    /\ o.kind = "json" => out'[t].err[1].msg = "city_not_found"
                    /\ o.kind = "HTTPError" => out'[t].err[1].msg = "geocoding_failed"]_vars

(* with the breaker open one call was rejected after its geocoding request *)
(* and another ended on a city that was not found                          *)
C32_Witness ==
  /\ Rejecting
  /\ \E t, u \in Tasks :
       /\ FailedLookup(t) /\ out[t].err[1].msg = "breaker_open"
       /\ frame[t].log = <<"cache_get", "geocode">>
       /\ frame[t].geo # None /\ frame[t].geo # Some(<<>>)
       /\ FailedLookup(u) /\ out[u].err[1].msg = "city_not_found"

(* ===================== concurrent lookups of one key ================== *)
(* another call for the key of task t has missed the cache and not yet     *)
(* returned                                                                *)
OtherInFlight(t) ==
  \E u \in Tasks \ {t} :
    /\ pc[u] \in {"geocode", "fetch", "cache_set"}
    /\ frame[u].cache_key = frame[t].cache_key

(* C33: lookups of one key are not coalesced.  A call that finds no entry  *)
(* sends its own geocoding request though another call for the same key is *)
(* in flight; a call that missed returns a record built from its own       *)
(* geocoding and weather responses, not flagged as cached; and a write     *)
(* that Redis accepts replaces whatever entry is there, so that the entry  *)
(* left is the one written last.                                           *)
C33_LookupsAreNotCoalesced ==
  /\ [][\A t \in Tasks :
         (pc[t] = "cache_get" /\ pc'[t] # "cache_get" /\ OtherInFlight(t)
            /\ store[frame[t].cache_key[1]] = None)
         => (pc'[t] = "geocode" /\ frame'[t].log = <<"cache_get", "geocode">>)]_vars
  /\ [][\A t \in Tasks :
         (ReturnsNowFrom(t, {"fetch", "cache_set"}) /\ frame[t].cached_data = None)
         => /\ ~out'[t].rec[1].cached
            /\ {"geocode", "weather"} \subseteq frame'[t].sent
            /\ SentCount(t, "geocode") = 1 /\ SentCount(t, "weather") = 1
            /\ out'[t].rec[1] = BuildResult(call[t].city, frame'[t].weather_data[1])]_vars
  /\ [][\A t \in Tasks : (pc[t] = "cache_set" /\ CacheSetReturns(t, "ok"))
         => /\ store'[frame[t].cache_key[1]] # None
            /\ \A f \in {"city", "temperature", "wind_speed", "weather_code"} :
                 json_loads(store'[frame[t].cache_key[1]][1].text)[f]
                   = frame[t].result[1][f]]_vars

(* the two lookups of Paris in one warming batch have both missed, fetched *)
(* different values and returned them uncached; the entry holds the values *)
(* of the second                                                           *)
C33_Witness ==
  /\ warm.st = "running"
  /\ Len(warm.cities) = 3
  /\ warm.cities[1] = warm.cities[3]
  /\ ReturnedOk(1) /\ ReturnedOk(3)
  /\ ~out[1].rec[1].cached /\ ~out[3].rec[1].cached
  /\ frame[1].log = <<"cache_get", "geocode", "weather", "cache_set">>
  /\ frame[3].log = <<"cache_get", "geocode", "weather", "cache_set">>
  /\ out[1].rec[1].temperature = 155
  /\ out[3].rec[1].temperature = 0
  /\ store[frame[3].cache_key[1]] # None
  /\ Entry(frame[3].cache_key[1])["temperature"] = 0

(* ========================= the warmer's counts ======================== *)
(* how many elements the list that a warm_cache call warms has: the list   *)
(* it was given, or the configured one when it was given none or an empty  *)
(* one                                                                     *)
ListLength ==
  IF warm.arg # None /\ warm.arg[1] # <<>> THEN Len(warm.arg[1])
  ELSE Len(popular_cities)

(* C34: when a warm_cache call with warming enabled returns, success and   *)
(* failed are not negative and add up to the number of elements of the     *)
(* list warmed, an element that occurs twice counting twice.               *)
C34_CountsAddUpToTheList ==
  (warm.st = "done" /\ warm.enabled /\ warm.ret # None)
    => /\ warm.ret[1].success >= 0
       /\ warm.ret[1].failed >= 0
       /\ warm.ret[1].success + warm.ret[1].failed = ListLength

(* a list naming Paris twice has been warmed: two lookups succeeded and    *)
(* one failed                                                              *)
C34_Witness ==
  /\ warm.st = "done" /\ warm.enabled
  /\ warm.arg = Some(<<Paris, ParisPadded, Paris>>)
  /\ warm.ret = Some([success |-> 2, failed |-> 1])

(* ===================== the city of a cached record ==================== *)
(* C35: the entry a call writes carries the city exactly as that call was  *)
(* given it, and a hit returns the city of the entry, whatever the         *)
(* spelling of the request that hit.                                       *)
C35_HitKeepsTheFirstSpelling ==
  /\ [][\A t \in Tasks : (pc[t] = "cache_set" /\ CacheSetReturns(t, "ok"))
         => /\ store'[frame[t].cache_key[1]] # None
            /\ json_loads(store'[frame[t].cache_key[1]][1].text)["city"] = call[t].city]_vars
  /\ [][\A t \in Tasks : ReturnsNowFrom(t, {"cache_get"})
         => /\ store[frame[t].cache_key[1]] # None
            /\ out'[t].rec[1].city = Entry(frame[t].cache_key[1])["city"]]_vars

(* the entry was written for Paris; a request for the padded spelling has  *)
(* hit it and was answered with the city Paris                             *)
C35_Witness ==
  \E t \in Tasks :
    /\ ReturnedOk(t) /\ out[t].rec[1].cached
    /\ call[t].city = ParisPadded
    /\ out[t].rec[1].city = Paris
    /\ writer[frame[t].cache_key[1]] # None
    /\ writer[frame[t].cache_key[1]][1].city = Paris

(* ====================== incomplete weather responses ================== *)
(* the value of a field of current_weather in a weather response, 0 when   *)
(* current_weather or the field is not there                               *)
FieldOrZero(data, field) ==
  IF "current_weather" \in DOMAIN data /\ field \in DOMAIN data["current_weather"]
  THEN data["current_weather"][field]
  ELSE 0

(* C36: a weather response that was received, with or without             *)
(* current_weather and each of its fields, does not fail the call: the     *)
(* record built has the value of every field that is there and 0 for every *)
(* one that is not, it goes on to the cache write and is returned          *)
(* uncached, the accepted write stores its values, and the breaker stays   *)
(* closed with no failure counted.                                         *)
C36_MissingFieldsDefaultToZero ==
  /\ [][\A t \in Tasks, o \in GuardedWeatherOutcomes :
         (FetchReturns(t, o) /\ o.kind = "json")
         => /\ pc'[t] = "cache_set"
            /\ frame'[t].result =
                 Some([city |-> call[t].city,
                       temperature |-> FieldOrZero(o.data, "temperature"),
                       wind_speed |-> FieldOrZero(o.data, "windspeed"),
                       weather_code |-> FieldOrZero(o.data, "weathercode"),
                       cached |-> FALSE])
            /\ breaker' = breaker
            /\ breaker.state = "closed" /\ breaker.counter = 0]_vars
  /\ [][\A t \in Tasks, ro \in RedisOutcomes :
         (pc[t] = "cache_set" /\ CacheSetReturns(t, ro))
         => /\ out'[t] = [kind |-> "ok", rec |-> frame[t].result, err |-> None]
            /\ breaker' = breaker
            /\ ro = "ok"
                 => /\ store'[frame[t].cache_key[1]] # None
                    /\ \A f \in {"city", "temperature", "wind_speed", "weather_code"} :
                         json_loads(store'[frame[t].cache_key[1]][1].text)[f]
                           = frame[t].result[1][f]]_vars

(* a response with the temperature alone gave a record with the other two  *)
(* fields 0, which was returned and is in the cache, the breaker closed    *)
C36_Witness ==
  /\ breaker.state = "closed" /\ breaker.counter = 0
  /\ \E t \in Tasks :
       /\ ReturnedOk(t) /\ ~out[t].rec[1].cached
       /\ frame[t].weather_data = Some([current_weather |-> PartialCurrent])
       /\ out[t].rec[1].temperature = 155
       /\ out[t].rec[1].wind_speed = 0 /\ out[t].rec[1].weather_code = 0
       /\ store[frame[t].cache_key[1]] # None
       /\ Entry(frame[t].cache_key[1])["wind_speed"] = 0
       /\ Entry(frame[t].cache_key[1])["temperature"] = 155

=============================================================================
